---- MODULE Spec2Model ----
(***************************************************************************)
(* Model of the streaming transducers of smtpc: the boundary detector,     *)
(* the mail header reader, the multipart part reader and the Base64 and    *)
(* Quoted-Printable codecs.  Bytes are their ASCII codes.  Every read or   *)
(* write call of the source is one action; its loop is a recursive         *)
(* operator that follows the source statement by statement.                *)
(***************************************************************************)
EXTENDS Integers, Sequences, FiniteSets, TLC

VARIABLES bd, hdr, part, b64r, b64w, qpr, qpw

vars == <<bd, hdr, part, b64r, b64w, qpr, qpw>>

\* value of a component that a specification does not exercise
Idle == [idle |-> TRUE]

(***************************************************************************)
(* Bytes                                                                   *)
(***************************************************************************)
CR == 13
LF == 10
DASH == 45
EQ == 61
CH_a == 97

Min(a, b) == IF a < b THEN a ELSE b

\* all sequences over S of length 0..n
RECURSIVE SeqsUpTo(_, _)
SeqsUpTo(S, n) ==
    IF n = 0 THEN {<< >>}
    ELSE LET T == SeqsUpTo(S, n - 1)
         IN  T \cup {Append(t, x) : t \in {u \in T : Len(u) = n - 1}, x \in S}

Take(s, k) == SubSeq(s, 1, Min(k, Len(s)))
Drop(s, k) == SubSeq(s, k + 1, Len(s))

\* does d occur in s at 1-based position p
OccursAt(s, d, p) == p + Len(d) - 1 <= Len(s) /\ SubSeq(s, p, p + Len(d) - 1) = d

Contains(s, d) == \E p \in 1..(Len(s) + 1) : OccursAt(s, d, p)

\* 1-based position of the first occurrence of d in s (only used when Contains)
FirstOcc(s, d) == CHOOSE p \in 1..(Len(s) + 1) :
                     OccursAt(s, d, p) /\ \A q \in 1..(p - 1) : ~OccursAt(s, d, q)

\* a carry buffer that is never rotated
rotate_left_none(a, k) == a

\* std::slice::rotate_left
rotate_left(a, k) == Drop(a, k) \o Take(a, k)

\* a[..Len(v)].clone_from_slice(v)
clone_from_slice(a, v) == v \o Drop(a, Len(v))

(***************************************************************************)
(* BoundaryDetector (utils/mod.rs)                                         *)
(***************************************************************************)
\* pass_byte with a breaking byte that is tried again from position 0
pass_byte_retry(boundary, pos, b) ==
    IF pos >= Len(boundary)
    THEN [res |-> "MatchDone", pos |-> pos, data |-> << >>]
    ELSE IF boundary[pos + 1] = b
         THEN IF pos + 1 = Len(boundary)
              THEN [res |-> "MatchDone", pos |-> pos + 1, data |-> << >>]
              ELSE [res |-> "MatchBegin", pos |-> pos + 1, data |-> << >>]
         ELSE IF pos = 0
              THEN [res |-> "NoMatch", pos |-> 0, data |-> << >>]
              ELSE [res |-> "MatchBroke", pos |-> IF boundary[1] = b THEN 1 ELSE 0,
                    data |-> Take(boundary, pos)]

\* pass_byte with a MatchBroke that leaves the position where it is
pass_byte_sticky(boundary, pos, b) ==
    IF pos >= Len(boundary)
    THEN [res |-> "MatchDone", pos |-> pos, data |-> << >>]
    ELSE IF boundary[pos + 1] = b
         THEN IF pos + 1 = Len(boundary)
              THEN [res |-> "MatchDone", pos |-> pos + 1, data |-> << >>]
              ELSE [res |-> "MatchBegin", pos |-> pos + 1, data |-> << >>]
         ELSE IF pos = 0
              THEN [res |-> "NoMatch", pos |-> 0, data |-> << >>]
              ELSE [res |-> "MatchBroke", pos |-> pos, data |-> Take(boundary, pos)]

\* pass_byte with a MatchBroke that returns one byte too few
pass_byte_short(boundary, pos, b) ==
    IF pos >= Len(boundary)
    THEN [res |-> "MatchDone", pos |-> pos, data |-> << >>]
    ELSE IF boundary[pos + 1] = b
         THEN IF pos + 1 = Len(boundary)
              THEN [res |-> "MatchDone", pos |-> pos + 1, data |-> << >>]
              ELSE [res |-> "MatchBegin", pos |-> pos + 1, data |-> << >>]
         ELSE IF pos = 0
              THEN [res |-> "NoMatch", pos |-> 0, data |-> << >>]
              ELSE [res |-> "MatchBroke", pos |-> 0, data |-> Take(boundary, pos - 1)]

\* pass_byte: the result kind, the new position, the data of MatchBroke
pass_byte(boundary, pos, b) ==
    IF pos >= Len(boundary)
    THEN [res |-> "MatchDone", pos |-> pos, data |-> << >>]
    ELSE IF boundary[pos + 1] = b
         THEN IF pos + 1 = Len(boundary)
              THEN [res |-> "MatchDone", pos |-> pos + 1, data |-> << >>]
              ELSE [res |-> "MatchBegin", pos |-> pos + 1, data |-> << >>]
         ELSE IF pos = 0
              THEN [res |-> "NoMatch", pos |-> 0, data |-> << >>]
              ELSE [res |-> "MatchBroke", pos |-> 0, data |-> Take(boundary, pos)]

\* BoundaryDetector::new
BoundaryDetector_new(boundary) == [boundary |-> boundary, pos |-> 0]

\* BoundaryDetector::is_done
is_done(d) == d.pos = Len(d.boundary)

\* a reset that leaves the position as it is
reset_kept(d) == d

\* BoundaryDetector::reset
reset(d) == [d EXCEPT !.pos = 0]

\* bounds of the detector's runs: the calls made on one detector, and the
\* delimiters, of at most MaxBdLen bytes
MaxBdCalls == 5
MaxBdLen == 3
BdAlphabet == {CR, LF}
BdBoundaries == SeqsUpTo(BdAlphabet, MaxBdLen) \cup {<<CR, LF, CR, LF>>}

\* a detector, the last call made on it with its byte and result, the bytes
\* passed and the results returned since the position was last set to 0 by
\* new or reset, and the number of calls
BdInit ==
    /\ \E boundary \in BdBoundaries :
          bd = [ d |-> BoundaryDetector_new(boundary), op |-> "new", byte |-> 0,
                 res |-> "None", data |-> << >>, fed |-> << >>, results |-> << >>,
                 calls |-> 0 ]
    /\ hdr = Idle /\ part = Idle /\ b64r = Idle /\ b64w = Idle /\ qpr = Idle /\ qpw = Idle

BdPassByte ==
    /\ bd.calls < MaxBdCalls
    /\ \E b \in BdAlphabet :
          LET r == pass_byte(bd.d.boundary, bd.d.pos, b)
          IN  bd' = [bd EXCEPT !.d.pos = r.pos, !.op = "pass_byte", !.byte = b,
                               !.res = r.res, !.data = r.data,
                               !.fed = Append(@, b), !.results = Append(@, r.res),
                               !.calls = @ + 1]
    /\ UNCHANGED <<hdr, part, b64r, b64w, qpr, qpw>>

BdReset ==
    /\ bd.calls < MaxBdCalls
    /\ bd' = [bd EXCEPT !.d = reset(bd.d), !.op = "reset", !.res = "None",
                        !.data = << >>, !.fed = << >>, !.results = << >>,
                        !.calls = @ + 1]
    /\ UNCHANGED <<hdr, part, b64r, b64w, qpr, qpw>>

BdNext == BdPassByte \/ BdReset

SpecBd == BdInit /\ [][BdNext]_vars

\* a consumer that drives a detector over an input by the protocol of
\* PartReader::read: the prefix returned by MatchBroke becomes literal
\* output and the breaking byte is passed again, a NoMatch byte is literal
\* output, and the scan stops at MatchDone. The record holds the number of
\* input bytes consumed (i) and the count of bytes consumed when MatchDone
\* was returned (done_at, 0 while it was not)
MaxScanLen == 5
ScanBoundaries == BdBoundaries \ {<< >>}

ScanInit ==
    /\ \E boundary \in ScanBoundaries, input \in SeqsUpTo(BdAlphabet, MaxScanLen) :
          bd = [ d |-> BoundaryDetector_new(boundary), input |-> input, i |-> 0,
                 literal |-> << >>, done_at |-> 0, res |-> "None" ]
    /\ hdr = Idle /\ part = Idle /\ b64r = Idle /\ b64w = Idle /\ qpr = Idle /\ qpw = Idle

ScanByte ==
    /\ bd.i < Len(bd.input) /\ bd.done_at = 0
    /\ LET b == bd.input[bd.i + 1]
           r1 == pass_byte(bd.d.boundary, bd.d.pos, b)
           r == IF r1.res = "MatchBroke" THEN pass_byte(bd.d.boundary, r1.pos, b) ELSE r1
           lit == r1.data \o (IF r.res = "NoMatch" THEN <<b>> ELSE << >>)
       IN  bd' = [bd EXCEPT !.d.pos = r.pos, !.i = @ + 1, !.res = r.res,
                            !.literal = @ \o lit,
                            !.done_at = IF r.res = "MatchDone" THEN bd.i + 1 ELSE 0]
    /\ UNCHANGED <<hdr, part, b64r, b64w, qpr, qpw>>

ScanNext == ScanByte

SpecScan == ScanInit /\ [][ScanNext]_vars

(***************************************************************************)
(* MailHeaderReader (mail/header/reader.rs)                                *)
(***************************************************************************)
HeaderDelimiter == <<CR, LF, CR, LF>>

\* bounds of the header reader's inputs: nothing or a CR, then at most
\* MaxHdrLen bytes of the alphabet
MaxHdrLen == 6
MaxHdrBuf == 4
MaxHdrExtra == 1
HdrAlphabet == {CR, LF, CH_a}
HdrHeads == {<< >>, <<CR>>}

\* MailHeaderReader::new, on a cursor over the input; rd_buf_max is a history
\* variable, the largest value rd_buf_sz has had
MailHeaderReader_new(input, in_mail) ==
    [ reader            |-> input,
      bd                |-> 0,
      is_in_mail        |-> in_mail,
      is_unexpected_eof |-> FALSE,
      is_finished       |-> FALSE,
      rd_buf            |-> <<0, 0, 0, 0, 0>>,
      rd_buf_sz         |-> 0,
      rd_buf_max        |-> 0 ]

\* a return that does not look at is_unexpected_eof
HdrReturn_ok(s, out) == [st |-> s, kind |-> "Ok", data |-> out]

\* the statements after the while loop of read
HdrReturn(s, out) ==
    IF Len(out) = 0 /\ s.is_unexpected_eof
    THEN [st |-> s, kind |-> "Err", data |-> << >>]
    ELSE [st |-> s, kind |-> "Ok", data |-> out]

\* a MatchBroke arm that stores the breaking byte twice
HdrMatchBroke_twice(s, v, b) ==
    LET a1 == clone_from_slice(s.rd_buf, v)
        a2 == [a1 EXCEPT ![Len(v) + 1] = b, ![Len(v) + 2] = b]
    IN  [s EXCEPT !.rd_buf = a2, !.rd_buf_sz = Len(v) + 2,
                  !.rd_buf_max = IF Len(v) + 2 > @ THEN Len(v) + 2 ELSE @]

\* the MatchBroke arm: the prefix and the breaking byte go to rd_buf
HdrMatchBroke(s, v, b) ==
    LET a1 == clone_from_slice(s.rd_buf, v)
        a2 == [a1 EXCEPT ![Len(v) + 1] = b]
    IN  [s EXCEPT !.rd_buf = a2, !.rd_buf_sz = Len(v) + 1,
                  !.rd_buf_max = IF Len(v) + 1 > @ THEN Len(v) + 1 ELSE @]

\* the while loop of read, with out the bytes written to buf so far and n = buf.len()
RECURSIVE HdrLoop(_, _, _)
HdrLoop(s, out, n) ==
    IF n - Len(out) <= 0 THEN HdrReturn(s, out)
    ELSE IF s.rd_buf_sz > 0
    THEN LET common_sz == Min(s.rd_buf_sz, n - Len(out))
             out2 == out \o Take(s.rd_buf, common_sz)
             s2 == [s EXCEPT !.rd_buf = rotate_left(s.rd_buf, common_sz),
                             !.rd_buf_sz = s.rd_buf_sz - common_sz]
         IN  \* the inner while runs again with common_sz = 0 and never ends
             IF s2.rd_buf_sz > 0
             THEN [st |-> s2, kind |-> "Hang", data |-> out2]
             ELSE HdrLoop(s2, out2, n)
    ELSE IF Len(s.reader) = 0
    THEN IF s.is_in_mail
         THEN HdrReturn([s EXCEPT !.is_unexpected_eof = TRUE], out)
         ELSE HdrReturn([s EXCEPT !.is_finished = TRUE], out)
    ELSE LET b == Head(s.reader)
             r == pass_byte(HeaderDelimiter, s.bd, b)
             s1 == [s EXCEPT !.reader = Tail(s.reader), !.bd = r.pos]
         IN  CASE r.res = "NoMatch"    -> HdrLoop(s1, Append(out, b), n)
               [] r.res = "MatchBegin" -> HdrLoop(s1, out, n)
               [] r.res = "MatchDone"  -> HdrReturn([s1 EXCEPT !.is_finished = TRUE], out)
               [] r.res = "MatchBroke" -> HdrLoop(HdrMatchBroke(s1, r.data, b), out, n)

\* MailHeaderReader::read with a buffer of n bytes
MailHeaderReader_read(s, n) ==
    IF n = 0 THEN [st |-> s, kind |-> "Ok", data |-> << >>]
    ELSE IF s.is_unexpected_eof THEN [st |-> s, kind |-> "Err", data |-> << >>]
    ELSE IF s.is_finished THEN [st |-> s, kind |-> "Ok", data |-> << >>]
    ELSE HdrLoop(s, << >>, n)

\* the driver of the header reader: the input, the reader, what the caller
\* has collected, the kind of the last result, whether Ok(0) was returned,
\* and the calls made after Ok(0) or an error
HdrInit ==
    /\ \E head \in HdrHeads, tail \in SeqsUpTo(HdrAlphabet, MaxHdrLen), in_mail \in BOOLEAN :
          LET input == head \o tail IN
          hdr = [ input |-> input, r |-> MailHeaderReader_new(input, in_mail),
                  out |-> << >>, last |-> "None", eof |-> FALSE, calls |-> 0,
                  extra |-> 0 ]
    /\ bd = Idle /\ part = Idle /\ b64r = Idle /\ b64w = Idle /\ qpr = Idle /\ qpw = Idle

\* one call of read; a call that never returns ends the run, and the caller
\* makes at most MaxHdrExtra calls after Ok(0) or an error
HdrRead ==
    /\ hdr.last # "Hang"
    /\ (hdr.eof \/ hdr.last = "Err") => hdr.extra < MaxHdrExtra
    /\ \E n \in 1..MaxHdrBuf :
          LET res == MailHeaderReader_read(hdr.r, n)
          IN  hdr' = [hdr EXCEPT !.r = res.st,
                                 !.out = IF res.kind = "Ok" THEN hdr.out \o res.data ELSE hdr.out,
                                 !.last = res.kind,
                                 !.eof = (res.kind = "Ok" /\ Len(res.data) = 0),
                                 !.calls = IF hdr.eof \/ hdr.last = "Err" THEN hdr.calls
                                           ELSE hdr.calls + 1,
                                 !.extra = IF hdr.eof \/ hdr.last = "Err" THEN hdr.extra + 1
                                           ELSE 0]
    /\ UNCHANGED <<bd, part, b64r, b64w, qpr, qpw>>

HdrNext == HdrRead

SpecHdr == HdrInit /\ [][HdrNext]_vars

\* the size of the buffer of count_header_bytes
CountBufLen == 512

\* the loop of count_header_bytes over a reader, with the offset summed so far
RECURSIVE CountLoop(_, _)
CountLoop(r, offset) ==
    LET res == MailHeaderReader_read(r, CountBufLen)
    IN  IF res.kind = "Hang" THEN [kind |-> "Hang", value |-> offset]
        ELSE IF res.kind = "Err" THEN [kind |-> "Err", value |-> 0]
        ELSE IF Len(res.data) = 0 THEN [kind |-> "Ok", value |-> offset]
        ELSE CountLoop(res.st, offset + Len(res.data))

\* count_header_bytes: a reader with in_mail = true on a cursor over the mail
count_header_bytes(mail) == CountLoop(MailHeaderReader_new(mail, TRUE), 0)

\* the caller of count_header_bytes: the mail and the result, once it is there
CntInit ==
    /\ \E head \in HdrHeads, tail \in SeqsUpTo(HdrAlphabet, MaxHdrLen) :
          hdr = [ mail |-> head \o tail, result |-> [kind |-> "None", value |-> 0] ]
    /\ bd = Idle /\ part = Idle /\ b64r = Idle /\ b64w = Idle /\ qpr = Idle /\ qpw = Idle

CntCount ==
    /\ hdr.result.kind = "None"
    /\ hdr' = [hdr EXCEPT !.result = count_header_bytes(hdr.mail)]
    /\ UNCHANGED <<bd, part, b64r, b64w, qpr, qpw>>

CntNext == CntCount

SpecCnt == CntInit /\ [][CntNext]_vars

(***************************************************************************)
(* PartReader (encoding/multipart.rs)                                      *)
(***************************************************************************)
CH_b == 98

\* PartReader::new: the three delimiters and the initial fields; asserts_held
\* and one_suffix are history variables: no debug_assert of read has failed,
\* and the two suffix detectors were never both off position 0
PartReader_new(input, boundary, use_single_nl) ==
    [ reader          |-> input,
      common_boundary |-> IF use_single_nl THEN <<LF, DASH, DASH>> \o boundary
                          ELSE <<CR, LF, DASH, DASH>> \o boundary,
      middle_boundary |-> IF use_single_nl THEN <<LF>> ELSE <<CR, LF>>,
      final_boundary  |-> IF use_single_nl THEN <<DASH, DASH, LF>> ELSE <<DASH, DASH, CR, LF>>,
      bd              |-> 0,
      final_bd        |-> 0,
      middle_bd       |-> 0,
      previous_char   |-> << >>,
      state           |-> "LookingForBoundary",
      match_state     |-> "None",
      recovery_buffer |-> << >>,
      asserts_held    |-> TRUE,
      one_suffix      |-> TRUE ]

\* a return from a reader that took one byte more from its source when it
\* finished
PartOk_ahead(s, out) ==
    [st |-> IF s.state # "LookingForBoundary" /\ Len(s.reader) > 0
            THEN [s EXCEPT !.reader = Tail(@)] ELSE s,
     kind |-> "Ok", data |-> out]

PartOk(s, out) == [st |-> s, kind |-> "Ok", data |-> out]
\* an error reported as the end of the part
PartErr_ok(s) == [st |-> s, kind |-> "Ok", data |-> << >>]

PartErr(s) == [st |-> s, kind |-> "Err", data |-> << >>]
PartPanic(s) == [st |-> s, kind |-> "Panic", data |-> << >>]

\* an end-of-stream branch without the lenient cases
PartEof_strict(s, out) == PartErr(s)

\* the end-of-stream branch of read (reader.read returned 0)
PartEof(s, out) ==
    IF s.bd = Len(s.common_boundary)
    THEN LET mb == s.middle_boundary
             fb == s.final_boundary
         IN  IF mb[Len(mb)] = LF
             THEN IF Len(mb) < 2
                  THEN PartPanic(s)   \* middle_boundary[len - 2] is out of range
                  ELSE LET sub_len == IF mb[Len(mb) - 1] = CR THEN 2 ELSE 1
                           s1 == IF s.middle_bd = Len(mb) - sub_len
                                 THEN [s EXCEPT !.state = "FoundFinalBoundary"] ELSE s
                           s2 == IF s1.middle_bd = Len(fb) - sub_len
                                 THEN [s1 EXCEPT !.state = "FoundMiddleBoundary"] ELSE s1
                       IN  IF s2.state = "LookingForBoundary" THEN PartErr(s2) ELSE PartOk(s2, out)
             ELSE PartErr(s)
    ELSE PartErr(s)

\* a replay that emits the breaking byte as literal instead of keeping it for
\* re-examination
PartReplay_literal(s, matched_data, b) ==
    [s EXCEPT !.recovery_buffer = s.recovery_buffer \o s.common_boundary \o matched_data \o <<b>>,
              !.bd = 0]

\* the replay of a broken match: the common boundary, the matched suffix bytes,
\* the breaking byte kept for re-examination, the common detector reset
PartReplay(s, matched_data, b) ==
    [s EXCEPT !.recovery_buffer = s.recovery_buffer \o s.common_boundary \o matched_data,
              !.previous_char = <<b>>,
              !.bd = 0]

\* the debug_assert statements of read, evaluated when a byte is at hand
PartAsserts(s) ==
    [s EXCEPT !.asserts_held = @ /\ Len(s.recovery_buffer) = 0
                                 /\ (s.bd < Len(s.common_boundary) =>
                                        (s.final_bd = 0 /\ s.middle_bd = 0)),
              !.one_suffix = @ /\ (s.middle_bd = 0 \/ s.final_bd = 0)]

\* the while loop of read, with out the bytes put in buf so far and n = buf.len()
RECURSIVE PartLoop(_, _, _)
\* the body of the loop once a byte b is at hand
PartByte(s0, b, out, n) ==
    LET s == PartAsserts(s0) IN
    IF s.bd = Len(s.common_boundary)
    THEN CASE s.match_state = "None" ->
               (LET mm == pass_byte(s.middle_boundary, s.middle_bd, b)
                    fm == pass_byte(s.final_boundary, s.final_bd, b)
                    s1 == [s EXCEPT !.middle_bd = mm.pos, !.final_bd = fm.pos]
                IN  CASE mm.res = "NoMatch" /\ fm.res = "NoMatch" ->
                           PartLoop(PartReplay(s1, << >>, b), out, n)
                      [] mm.res = "MatchBegin" /\ fm.res \in {"NoMatch", "MatchBroke"} ->
                           PartLoop([s1 EXCEPT !.match_state = "Middle"], out, n)
                      [] fm.res = "MatchBegin" /\ mm.res \in {"NoMatch", "MatchBroke"} ->
                           PartLoop([s1 EXCEPT !.match_state = "Final"], out, n)
                      [] mm.res = "MatchBroke" /\ fm.res = "MatchBroke" ->
                           PartLoop(PartReplay(s1, fm.data, b), out, n)
                      [] OTHER -> PartPanic(s1))
           [] s.match_state = "Middle" ->
               (LET r == pass_byte(s.middle_boundary, s.middle_bd, b)
                    s1 == [s EXCEPT !.middle_bd = r.pos]
                IN  CASE r.res = "MatchDone" ->
                           PartLoop([s1 EXCEPT !.state = "FoundMiddleBoundary"], out, n)
                      [] r.res = "MatchBroke" -> PartLoop(PartReplay(s1, r.data, b), out, n)
                      [] r.res = "MatchBegin" -> PartLoop(s1, out, n)
                      [] r.res = "NoMatch" -> PartPanic(s1))
           [] s.match_state = "Final" ->
               (LET r == pass_byte(s.final_boundary, s.final_bd, b)
                    s1 == [s EXCEPT !.final_bd = r.pos]
                IN  CASE r.res = "MatchDone" ->
                           PartLoop([s1 EXCEPT !.state = "FoundFinalBoundary"], out, n)
                      [] r.res = "MatchBroke" -> PartLoop(PartReplay(s1, r.data, b), out, n)
                      [] r.res = "MatchBegin" -> PartLoop(s1, out, n)
                      [] r.res = "NoMatch" -> PartPanic(s1))
    ELSE LET r == pass_byte(s.common_boundary, s.bd, b)
             s1 == [s EXCEPT !.bd = r.pos]
         IN  CASE r.res = "MatchDone" -> PartLoop([s1 EXCEPT !.match_state = "None"], out, n)
               [] r.res = "MatchBegin" -> PartLoop(s1, out, n)
               [] r.res = "MatchBroke" ->
                    PartLoop([s1 EXCEPT !.recovery_buffer = s1.recovery_buffer \o r.data,
                                        !.previous_char = <<b>>], out, n)
               [] r.res = "NoMatch" -> PartLoop(s1, Append(out, b), n)

PartLoop(s, out, n) ==
    IF n - Len(out) <= 0 THEN PartOk(s, out)
    ELSE IF s.state # "LookingForBoundary" THEN PartOk(s, out)
    ELSE IF Len(s.recovery_buffer) > 0
    THEN PartLoop([s EXCEPT !.recovery_buffer = Tail(s.recovery_buffer)],
                  Append(out, Head(s.recovery_buffer)), n)
    ELSE IF Len(s.previous_char) > 0
    THEN PartByte([s EXCEPT !.previous_char = << >>], s.previous_char[1], out, n)
    ELSE IF Len(s.reader) = 0
    THEN PartEof(s, out)
    ELSE PartByte([s EXCEPT !.reader = Tail(s.reader)], Head(s.reader), out, n)

\* a read that looks for a boundary again on a reader that had finished
PartReader_read_reopened(s, n) == PartLoop([s EXCEPT !.state = "LookingForBoundary"], << >>, n)

\* a read that keeps the breaking byte in a local variable, lost on return
PartReader_read_local(s, n) == PartLoop([s EXCEPT !.previous_char = << >>], << >>, n)

\* PartReader::read with a buffer of n bytes
PartReader_read(s, n) == PartLoop(s, << >>, n)

\* bounds of the part reader's inputs: an input is a sequence of pieces, a
\* piece being one byte or the whole common prefix of the marker, followed by
\* nothing, by the middle suffix or by the final suffix
MaxPartPieces == 4
MaxPartBuf == 2
PartAlphabet == {CR, LF, DASH}
COMMON == 0
PartMarkers == {<< >>, <<CH_b>>}
PartModes == {FALSE, TRUE}
PartTails == {"none", "middle", "final"}

RECURSIVE Expand(_, _)
Expand(pieces, common) ==
    IF pieces = << >> THEN << >>
    ELSE (IF Head(pieces) = COMMON THEN common ELSE <<Head(pieces)>>)
         \o Expand(Tail(pieces), common)

PartInit ==
    /\ \E pieces \in SeqsUpTo(PartAlphabet \cup {COMMON}, MaxPartPieces),
          tail \in PartTails, boundary \in PartMarkers, use_single_nl \in PartModes :
          LET r0 == PartReader_new(<< >>, boundary, use_single_nl)
              input == Expand(pieces, r0.common_boundary)
                         \o (CASE tail = "none" -> << >>
                               [] tail = "middle" -> r0.middle_boundary
                               [] tail = "final" -> r0.final_boundary)
          IN  part = [ input |-> input, boundary |-> boundary,
                       use_single_nl |-> use_single_nl,
                       r |-> PartReader_new(input, boundary, use_single_nl),
                       out |-> << >>, last |-> "None", eof |-> FALSE, cut |-> FALSE,
                       finished_calls |-> 0 ]
    /\ bd = Idle /\ hdr = Idle /\ b64r = Idle /\ b64w = Idle /\ qpr = Idle /\ qpw = Idle

\* a replay is under way: bytes wait in the recovery buffer or in previous_char
PartPending(s) == Len(s.recovery_buffer) > 0 \/ Len(s.previous_char) > 0

\* one call of read by a caller that stops at Ok(0), at an error or at a panic;
\* cut records that some call returned in the middle of a replay, and
\* finished_calls counts the calls made on a reader that had finished
PartRead ==
    /\ part.last \in {"None", "Ok"} /\ ~part.eof
    /\ \E n \in 1..MaxPartBuf :
          LET res == PartReader_read(part.r, n)
          IN  part' = [part EXCEPT !.r = res.st,
                                   !.out = IF res.kind = "Ok" THEN part.out \o res.data ELSE part.out,
                                   !.last = res.kind,
                                   !.eof = (res.kind = "Ok" /\ Len(res.data) = 0),
                                   !.cut = part.cut \/ (res.kind = "Ok" /\ PartPending(res.st)),
                                   !.finished_calls =
                                       IF part.r.state = "LookingForBoundary" THEN @ ELSE @ + 1]
    /\ UNCHANGED <<bd, hdr, b64r, b64w, qpr, qpw>>

PartNext == PartRead

SpecPart == PartInit /\ [][PartNext]_vars

\* bounds of a multipart body of two parts: the first body has at most
\* MaxPart2Body bytes, the second is one of Part2Bodies, and a caller opens at
\* most MaxPartReopen further readers on the source
MaxPart2Body == 2
MaxPartReopen == 1
Part2Suffixes == {"middle", "final"}
Part2Bodies == {<< >>, <<DASH, DASH>>, <<CR, DASH>>, <<CR, LF>>}

\* a source of two parts, each a body, the common prefix and a suffix, and
\* the first reader on it; parts counts the readers that have finished and
\* after is the state in which the last of them finished
Part2Init ==
    /\ \E b1 \in SeqsUpTo(PartAlphabet, MaxPart2Body), b2 \in Part2Bodies,
          t1 \in Part2Suffixes, t2 \in Part2Suffixes,
          boundary \in PartMarkers, use_single_nl \in PartModes :
          LET r0 == PartReader_new(<< >>, boundary, use_single_nl)
              sfx(t) == IF t = "middle" THEN r0.middle_boundary ELSE r0.final_boundary
              input == b1 \o r0.common_boundary \o sfx(t1) \o b2 \o r0.common_boundary \o sfx(t2)
          IN  part = [ input |-> input, boundary |-> boundary,
                       use_single_nl |-> use_single_nl,
                       r |-> PartReader_new(input, boundary, use_single_nl),
                       out |-> << >>, last |-> "None", eof |-> FALSE, cut |-> FALSE,
                       finished_calls |-> 0, parts |-> 0, after |-> "None" ]
    /\ bd = Idle /\ hdr = Idle /\ b64r = Idle /\ b64w = Idle /\ qpr = Idle /\ qpw = Idle

\* the caller takes the source back from a reader that reported the end of
\* its part and creates the next reader on it, with the same marker
PartReopen ==
    /\ part.eof /\ part.r.state # "LookingForBoundary"
    /\ part.parts < MaxPartReopen
    /\ part' = [part EXCEPT !.input = part.r.reader,
                            !.r = PartReader_new(part.r.reader, part.boundary, part.use_single_nl),
                            !.out = << >>, !.last = "None", !.eof = FALSE, !.cut = FALSE,
                            !.finished_calls = 0, !.parts = @ + 1,
                            !.after = part.r.state]
    /\ UNCHANGED <<bd, hdr, b64r, b64w, qpr, qpw>>

Part2Next == PartRead \/ PartReopen

SpecPart2 == Part2Init /\ [][Part2Next]_vars

(***************************************************************************)
(* The base64 crate, STANDARD configuration (called from encoding/base64.rs)*)
(***************************************************************************)
CH_Q == 81
CH_R == 82

\* the 6-bit value of a character of the standard alphabet, -1 for any other byte
B64Value(c) ==
    IF c >= 65 /\ c <= 90 THEN c - 65
    ELSE IF c >= 97 /\ c <= 122 THEN c - 71
    ELSE IF c >= 48 /\ c <= 57 THEN c + 4
    ELSE IF c = 43 THEN 62
    ELSE IF c = 47 THEN 63
    ELSE -1

\* the character of a 6-bit value
B64Char(v) ==
    IF v < 26 THEN v + 65
    ELSE IF v < 52 THEN v + 71
    ELSE IF v < 62 THEN v - 4
    ELSE IF v = 62 THEN 43 ELSE 47

Pow2(k) == 2 ^ k

\* bit k (0 = first) of a stream of units of w bits each, zero after its end
StreamBit(units, w, k) ==
    IF k >= w * Len(units) THEN 0
    ELSE (units[(k \div w) + 1] \div Pow2(w - 1 - (k % w))) % 2

\* the w bits from bit k on, as a number
RECURSIVE StreamBits(_, _, _, _)
StreamBits(units, w, k, cnt) ==
    IF cnt = 0 THEN 0
    ELSE 2 * StreamBits(units, w, k, cnt - 1) + StreamBit(units, w, k + cnt - 1)

\* the number of '=' at the end of s
RECURSIVE TrailingPads(_)
TrailingPads(s) ==
    IF Len(s) > 0 /\ s[Len(s)] = EQ THEN 1 + TrailingPads(SubSeq(s, 1, Len(s) - 1)) ELSE 0

\* base64::decode / base64::decode_config_slice: the decoded bytes, or an error
\* for a byte outside the alphabet, misplaced or excessive padding, a lone
\* trailing symbol, or non-zero bits after the last whole byte
base64_decode(s) ==
    LET k == TrailingPads(s)
        m == Len(s) - k
        vals == [i \in 1..m |-> B64Value(s[i])]
        nbytes == (6 * m) \div 8
        bad == \/ \E i \in 1..m : vals[i] = -1
               \/ k > 2
               \/ (k > 0 /\ m % 4 < 2)
               \/ (k = 2 /\ m % 4 # 2)
               \/ m % 4 = 1
    IN  IF bad THEN [ok |-> FALSE, data |-> << >>]
        ELSE IF \E b \in (8 * nbytes)..(6 * m - 1) : StreamBit(vals, 6, b) = 1
        THEN [ok |-> FALSE, data |-> << >>]
        ELSE [ok |-> TRUE, data |-> [j \in 1..nbytes |-> StreamBits(vals, 6, 8 * (j - 1), 8)]]

\* base64::encode / base64::encode_config_slice: the padded encoding
base64_encode(d) ==
    LET n == Len(d)
        nchars == (8 * n + 5) \div 6
        total == 4 * ((n + 2) \div 3)
    IN  [i \in 1..total |->
            IF i <= nchars THEN B64Char(StreamBits(d, 8, 6 * (i - 1), 6)) ELSE EQ]

(***************************************************************************)
(* Base64Reader (encoding/base64.rs)                                       *)
(***************************************************************************)
\* Base64Reader::new, on a cursor over the input
Base64Reader_new(input) ==
    [ reader      |-> input,
      in_buf      |-> <<0, 0, 0, 0>>,
      in_buf_sz   |-> 0,
      rd_buf      |-> <<0, 0, 0>>,
      rd_buf_sz   |-> 0,
      padding_cnt |-> 0,
      is_err      |-> FALSE ]

B64Ok(s, out, eof) == [st |-> s, kind |-> "Ok", data |-> out, saw_eof |-> eof]
\* end-of-stream inside a group reported as the end of the data
B64Err_eof(s, eof) ==
    IF eof THEN B64Ok(s, << >>, TRUE)
    ELSE [st |-> s, kind |-> "Err", data |-> << >>, saw_eof |-> eof]

B64Err(s, eof) == [st |-> s, kind |-> "Err", data |-> << >>, saw_eof |-> eof]

\* the while loop of read, with out the bytes put in buf so far and n = buf.len()
RECURSIVE B64Loop(_, _, _)
\* the loop body after a byte b was read from the source
B64Byte(s0, b, out, n) ==
    IF b = EQ /\ s0.padding_cnt >= 2
    THEN B64Err([s0 EXCEPT !.is_err = TRUE], FALSE)
    ELSE LET s == IF b = EQ THEN [s0 EXCEPT !.padding_cnt = s0.padding_cnt + 1] ELSE s0
         IN  IF s.padding_cnt > 0 /\ b # EQ
             THEN B64Err([s EXCEPT !.is_err = TRUE], FALSE)
             ELSE IF s.in_buf_sz < 3
             THEN B64Loop([s EXCEPT !.in_buf[s.in_buf_sz + 1] = b,
                                    !.in_buf_sz = s.in_buf_sz + 1], out, n)
             ELSE LET s1 == [s EXCEPT !.in_buf[4] = b, !.in_buf_sz = 0]
                      dec == base64_decode(s1.in_buf)
                  IN  IF ~dec.ok THEN B64Err(s1, FALSE)
                      ELSE IF n - Len(out) >= 3
                      THEN B64Loop(s1, out \o dec.data, n)
                      ELSE B64Loop([s1 EXCEPT !.rd_buf = clone_from_slice(s1.rd_buf, dec.data),
                                              !.rd_buf_sz = Len(dec.data)], out, n)

B64Loop(s, out, n) ==
    IF n - Len(out) <= 0 THEN B64Ok(s, out, FALSE)
    ELSE IF s.rd_buf_sz > 0
    THEN LET common_sz == Min(n - Len(out), s.rd_buf_sz)
         IN  B64Loop([s EXCEPT !.rd_buf = rotate_left(s.rd_buf, common_sz),
                               !.rd_buf_sz = s.rd_buf_sz - common_sz],
                     out \o Take(s.rd_buf, common_sz), n)
    ELSE IF Len(s.reader) = 0
    THEN IF s.in_buf_sz # 0 THEN B64Err(s, TRUE) ELSE B64Ok(s, out, TRUE)
    ELSE B64Byte([s EXCEPT !.reader = Tail(s.reader)], Head(s.reader), out, n)

\* Base64Reader::read with a buffer of n bytes
Base64Reader_read(s, n) ==
    IF n = 0 THEN B64Ok(s, << >>, FALSE) ELSE B64Loop(s, << >>, n)

\* bounds of the Base64 reader's inputs: nothing or one whole group, then any
\* bytes of the alphabet (two data characters, the padding, an invalid byte)
MaxB64Tail == 4
MaxB64Buf == 3
MaxB64Retry == 2
CH_BANG == 33
B64Alphabet == {CH_Q, CH_R, EQ, CH_BANG}
B64Heads == {<< >>, <<CH_Q, CH_R, CH_Q, CH_R>>, <<CH_Q, CH_Q, EQ, EQ>>}

\* the driver: the input, the reader, the bytes collected before any failure,
\* the last result (its kind, whether the source reported its end), whether
\* Ok(0) was returned, whether a read has failed, how many reads were made
\* after a failure, and whether a call returned with bytes left in rd_buf
B64RInit ==
    /\ \E head \in B64Heads, tail \in SeqsUpTo(B64Alphabet, MaxB64Tail) :
          LET input == head \o tail IN
          b64r = [ input |-> input, r |-> Base64Reader_new(input), out |-> << >>,
                   last |-> "None", saw_eof |-> FALSE, eof |-> FALSE,
                   erred |-> FALSE, retries |-> 0, split |-> FALSE ]
    /\ bd = Idle /\ hdr = Idle /\ part = Idle /\ b64w = Idle /\ qpr = Idle /\ qpw = Idle

\* one call of read; the caller stops at Ok(0) and retries a failed reader at
\* most MaxB64Retry times
B64RRead ==
    /\ ~b64r.eof
    /\ b64r.erred => b64r.retries < MaxB64Retry
    /\ \E n \in 1..MaxB64Buf :
          LET res == Base64Reader_read(b64r.r, n)
          IN  b64r' = [b64r EXCEPT !.r = res.st,
                                   !.out = IF b64r.erred THEN b64r.out ELSE b64r.out \o res.data,
                                   !.last = res.kind,
                                   !.saw_eof = res.saw_eof,
                                   !.eof = (res.kind = "Ok" /\ Len(res.data) = 0),
                                   !.erred = b64r.erred \/ res.kind = "Err",
                                   !.retries = IF b64r.erred THEN b64r.retries + 1 ELSE 0,
                                   !.split = b64r.split \/ (res.kind = "Ok" /\ res.st.rd_buf_sz > 0)]
    /\ UNCHANGED <<bd, hdr, part, b64w, qpr, qpw>>

B64RNext == B64RRead

SpecB64R == B64RInit /\ [][B64RNext]_vars

(***************************************************************************)
(* Base64Writer (encoding/base64.rs)                                       *)
(***************************************************************************)
CH_FF == 255

\* Base64Writer::new on a sink that is a Vec (cap < 0: every byte offered is
\* accepted) or a cursor over a slice of cap bytes (write accepts what still
\* fits, Ok(0) once full); flush of either sink does nothing. A sink with
\* max_write > 0 accepts at most max_write bytes in one call of write
Base64Writer_new(cap, finalize_on_flush) ==
    [ writer            |-> << >>,
      cap               |-> cap,
      in_buf            |-> <<0, 0, 0>>,
      in_buf_sz         |-> 0,
      w_buf             |-> <<0, 0, 0, 0>>,
      w_buf_sz          |-> 0,
      is_done           |-> FALSE,
      finalize_on_flush |-> finalize_on_flush,
      max_write         |-> 0 ]

\* the length self.writer.write returns when offered k bytes
SinkAccepts(w, k) ==
    LET room == IF w.cap < 0 THEN k ELSE Min(k, w.cap - Len(w.writer))
    IN  IF w.max_write > 0 THEN Min(room, w.max_write) ELSE room

\* self.writer.write(&self.w_buf[..self.w_buf_sz]) and w_buf_sz -= len
WriteWBuf(w) ==
    LET len == SinkAccepts(w, w.w_buf_sz)
    IN  [w EXCEPT !.writer = w.writer \o Take(w.w_buf, len), !.w_buf_sz = w.w_buf_sz - len]

\* one write of w_buf, whatever the sink accepted of it
flush_write_buffer_once(w) ==
    IF w.w_buf_sz = 0 THEN [st |-> w, kind |-> "Ok"]
    ELSE IF SinkAccepts(w, w.w_buf_sz) = 0 THEN [st |-> w, kind |-> "Err"]
    ELSE [st |-> WriteWBuf(w), kind |-> "Ok"]

\* flush_write_buffer: write w_buf until it is empty, WriteZero on Ok(0)
RECURSIVE flush_write_buffer(_)
flush_write_buffer(w) ==
    IF w.w_buf_sz = 0 THEN [st |-> w, kind |-> "Ok"]
    ELSE IF SinkAccepts(w, w.w_buf_sz) = 0 THEN [st |-> w, kind |-> "Err"]
    ELSE flush_write_buffer(WriteWBuf(w))

\* the bytes of a partial group dropped instead of encoded
read_buffer_into_write_buffer_lost(w) == [w EXCEPT !.in_buf_sz = 0, !.w_buf_sz = 0]

\* read_buffer_into_write_buffer: encode what in_buf holds, with padding
read_buffer_into_write_buffer(w) ==
    LET enc == base64_encode(Take(w.in_buf, w.in_buf_sz))
    IN  [w EXCEPT !.w_buf = clone_from_slice(w.w_buf, enc),
                  !.in_buf_sz = 0,
                  !.w_buf_sz = Len(enc)]

\* only what w_buf holds is written, in_buf is left alone
flush_buffers_complete_only(w) == flush_write_buffer(w)

flush_buffers(w) ==
    LET r1 == flush_write_buffer(w)
    IN  IF r1.kind = "Err" THEN r1
        ELSE flush_write_buffer(read_buffer_into_write_buffer(r1.st))

\* Base64Writer::finalize
Base64Writer_finalize(w) ==
    IF w.is_done THEN [st |-> w, kind |-> "Err"]
    ELSE LET r == flush_buffers(w)
         IN  IF r.kind = "Err" THEN r
             ELSE [st |-> [r.st EXCEPT !.is_done = TRUE], kind |-> "Ok"]

\* the while loop of write, with processed_sz bytes of buf taken so far; the
\* loop never ends ("Hang") when w_buf is pending and the sink returns Ok(0)
RECURSIVE B64WLoop(_, _, _)
B64WLoop(w, buf, processed_sz) ==
    IF Len(buf) - processed_sz <= 0 THEN [st |-> w, kind |-> "Ok"]
    ELSE IF w.w_buf_sz > 0
    THEN IF SinkAccepts(w, w.w_buf_sz) = 0 THEN [st |-> w, kind |-> "Hang"]
         ELSE B64WLoop(WriteWBuf(w), buf, processed_sz)
    ELSE IF w.in_buf_sz > 0 /\ w.in_buf_sz < 3
    THEN LET max_common_sz == Min(Len(buf) - processed_sz, 3 - w.in_buf_sz)
             src == Take(buf, max_common_sz)
         IN  B64WLoop([w EXCEPT !.in_buf = Take(w.in_buf, w.in_buf_sz) \o src
                                             \o Drop(w.in_buf, w.in_buf_sz + max_common_sz),
                                !.in_buf_sz = w.in_buf_sz + max_common_sz],
                      buf, processed_sz + max_common_sz)
    ELSE IF w.in_buf_sz = 3
    THEN LET w1 == [w EXCEPT !.w_buf = base64_encode(w.in_buf), !.w_buf_sz = 4]
         IN  IF SinkAccepts(w1, 4) = 0 THEN [st |-> w1, kind |-> "Err"]
             ELSE B64WLoop([WriteWBuf(w1) EXCEPT !.in_buf_sz = 0], buf, processed_sz)
    ELSE IF processed_sz + 3 <= Len(buf)
    THEN LET rd_buf == SubSeq(buf, processed_sz + 1, processed_sz + 3)
             w1 == [w EXCEPT !.w_buf = base64_encode(rd_buf), !.w_buf_sz = 4]
         IN  B64WLoop(WriteWBuf(w1), buf, processed_sz + 3)
    ELSE LET rd_buf == Drop(buf, processed_sz)
         IN  B64WLoop([w EXCEPT !.in_buf = clone_from_slice(w.in_buf, rd_buf),
                                !.in_buf_sz = Len(rd_buf)],
                      buf, processed_sz + Len(rd_buf))

\* Base64Writer::write; an Ok result has taken the whole of buf
Base64Writer_write(w, buf) ==
    IF w.is_done THEN [st |-> w, kind |-> "Err"]
    ELSE B64WLoop(w, buf, 0)

\* flush that leaves finalize_on_flush cleared when finalize fails
Base64Writer_flush_cleared(w) ==
    IF w.is_done THEN [st |-> w, kind |-> "Ok"]
    ELSE IF w.finalize_on_flush
    THEN LET res == Base64Writer_finalize([w EXCEPT !.finalize_on_flush = FALSE])
         IN  IF res.kind = "Err" THEN res
             ELSE [st |-> [res.st EXCEPT !.finalize_on_flush = TRUE], kind |-> "Ok"]
    ELSE flush_buffers(w)

\* Base64Writer::flush
Base64Writer_flush(w) ==
    IF w.is_done THEN [st |-> w, kind |-> "Ok"]
    ELSE IF w.finalize_on_flush
    THEN LET res == Base64Writer_finalize([w EXCEPT !.finalize_on_flush = FALSE])
         IN  [st |-> [res.st EXCEPT !.finalize_on_flush = TRUE], kind |-> res.kind]
    ELSE flush_buffers(w)

\* bounds of the Base64 writer's data and of the capacity of a slice sink
MaxB64Data == 4
MaxB64Chunk == 3
MaxB64Cap == 5
B64Bytes == {CH_a, CH_FF}
B64Caps == {-1} \cup 0..MaxB64Cap

\* the driver: the data, the part of it not yet written, the writer, the last
\* call and the kind of its result, and whether flush was called on a writer
\* that does not finalize on flush while it held 1 or 2 bytes of a group
B64WInit ==
    /\ \E d \in SeqsUpTo(B64Bytes, MaxB64Data), cap \in B64Caps, fof \in BOOLEAN :
          b64w = [ d |-> d, rest |-> d, w |-> Base64Writer_new(cap, fof),
                   op |-> "new", last |-> "None", partial_flush |-> FALSE ]
    /\ bd = Idle /\ hdr = Idle /\ part = Idle /\ b64r = Idle /\ qpr = Idle /\ qpw = Idle

\* write the next chunk of at most MaxB64Chunk bytes; a call that never
\* returns ends the run
B64WWrite ==
    /\ b64w.rest # << >> /\ b64w.last # "Hang"
    /\ \E k \in 1..Min(MaxB64Chunk, Len(b64w.rest)) :
          LET res == Base64Writer_write(b64w.w, Take(b64w.rest, k))
          IN  b64w' = [b64w EXCEPT !.w = res.st, !.op = "write", !.last = res.kind,
                                   !.rest = IF res.kind = "Ok" THEN Drop(b64w.rest, k)
                                            ELSE b64w.rest]
    /\ UNCHANGED <<bd, hdr, part, b64r, qpr, qpw>>

B64WFlush ==
    /\ b64w.last # "Hang"
    /\ LET res == Base64Writer_flush(b64w.w)
       IN  b64w' = [b64w EXCEPT !.w = res.st, !.op = "flush", !.last = res.kind,
                                !.partial_flush = b64w.partial_flush
                                    \/ (~b64w.w.is_done /\ ~b64w.w.finalize_on_flush
                                        /\ b64w.w.in_buf_sz \in 1..2)]
    /\ UNCHANGED <<bd, hdr, part, b64r, qpr, qpw>>

B64WFinalize ==
    /\ b64w.last # "Hang"
    /\ LET res == Base64Writer_finalize(b64w.w)
       IN  b64w' = [b64w EXCEPT !.w = res.st, !.op = "finalize", !.last = res.kind]
    /\ UNCHANGED <<bd, hdr, part, b64r, qpr, qpw>>

B64WNext == B64WWrite \/ B64WFlush \/ B64WFinalize

SpecB64W == B64WInit /\ [][B64WNext]_vars

(***************************************************************************)
(* Base64Writer into a Vec, then Base64Reader over what the Vec received   *)
(***************************************************************************)
B64RTInit ==
    /\ \E d \in SeqsUpTo(B64Bytes, MaxB64Data), fof \in BOOLEAN :
          b64w = [ d |-> d, rest |-> d, w |-> Base64Writer_new(-1, fof),
                   op |-> "new", last |-> "None", partial_flush |-> FALSE ]
    /\ bd = Idle /\ b64r = Idle /\ hdr = Idle /\ part = Idle /\ qpr = Idle /\ qpw = Idle

B64RTWrite == b64r = Idle /\ B64WWrite

B64RTFinalize == b64r = Idle /\ B64WFinalize

\* the reader is created on a cursor over the bytes of the sink
B64RTOpen ==
    /\ b64r = Idle /\ b64w.w.is_done /\ b64w.rest = << >>
    /\ b64r' = [ input |-> b64w.w.writer, r |-> Base64Reader_new(b64w.w.writer),
                 out |-> << >>, last |-> "None", saw_eof |-> FALSE, eof |-> FALSE,
                 erred |-> FALSE, retries |-> 0, split |-> FALSE ]
    /\ UNCHANGED <<bd, hdr, part, b64w, qpr, qpw>>

B64RTRead == b64r # Idle /\ B64RRead

B64RTNext == B64RTWrite \/ B64RTFinalize \/ B64RTOpen \/ B64RTRead

SpecB64RT == B64RTInit /\ [][B64RTNext]_vars

(***************************************************************************)
(* QuotedPrintableReader (encoding/quoted_printable.rs)                    *)
(***************************************************************************)
CH_A == 65
CH_G == 71

\* is_valid_hex_digit: the digits and the upper case letters A..F
is_valid_hex_digit(num) == (num >= 48 /\ num <= 57) \/ (num >= 65 /\ num <= 70)

\* the value of an accepted hex digit
HexValue(c) == IF c <= 57 THEN c - 48 ELSE c - 55

\* QuotedPrintableReader::new, on a cursor over the input
QuotedPrintableReader_new(input) ==
    [ stream |-> input, buf |-> 0, buf_offset |-> 0, is_error |-> FALSE ]

\* a loop body that keeps the line feed of a soft line break; the result of
\* an error holds what res_buf held when the loop returned (staged)
QpByte_keeps_lf(s, b, res_buf) ==
    LET fail == [st |-> [s EXCEPT !.is_error = TRUE], kind |-> "Err", data |-> << >>,
                 staged |-> res_buf]
        go(t, out) == [st |-> t, kind |-> "Ok", data |-> out]
    IN  CASE s.buf_offset = 0 ->
               IF b = EQ THEN go([s EXCEPT !.buf_offset = 1], res_buf)
               ELSE go(s, Append(res_buf, b))
          [] s.buf_offset = 1 ->
               IF b = LF THEN go([s EXCEPT !.buf_offset = 0], Append(res_buf, b))
               ELSE IF b = CR THEN go([s EXCEPT !.buf_offset = 3], res_buf)
               ELSE IF ~is_valid_hex_digit(b) THEN fail
               ELSE go([s EXCEPT !.buf = b, !.buf_offset = 2], res_buf)
          [] s.buf_offset = 2 ->
               IF ~is_valid_hex_digit(b) THEN fail
               ELSE go([s EXCEPT !.buf_offset = 0],
                       Append(res_buf, 16 * HexValue(s.buf) + HexValue(b)))
          [] s.buf_offset = 3 ->
               IF b # LF THEN fail
               ELSE go([s EXCEPT !.buf_offset = 0], res_buf)

\* the body of the for loop of read for the byte b, after the test on the
\* room left in buf
QpByte(s, b, res_buf) ==
    LET fail == [st |-> [s EXCEPT !.is_error = TRUE], kind |-> "Err", data |-> << >>,
                 staged |-> res_buf]
        go(t, out) == [st |-> t, kind |-> "Ok", data |-> out]
    IN  CASE s.buf_offset = 0 ->
               IF b = EQ THEN go([s EXCEPT !.buf_offset = 1], res_buf)
               ELSE go(s, Append(res_buf, b))
          [] s.buf_offset = 1 ->
               IF b = LF THEN go([s EXCEPT !.buf_offset = 0], res_buf)
               ELSE IF b = CR THEN go([s EXCEPT !.buf_offset = 3], res_buf)
               ELSE IF ~is_valid_hex_digit(b) THEN fail
               ELSE go([s EXCEPT !.buf = b, !.buf_offset = 2], res_buf)
          [] s.buf_offset = 2 ->
               IF ~is_valid_hex_digit(b) THEN fail
               ELSE go([s EXCEPT !.buf_offset = 0],
                       Append(res_buf, 16 * HexValue(s.buf) + HexValue(b)))
          [] s.buf_offset = 3 ->
               IF b # LF THEN fail
               ELSE go([s EXCEPT !.buf_offset = 0], res_buf)

\* the iterations of the for loop of read for local_buf[lo..hi], from the
\* result r of the iterations before; the loop ends at the first error and
\* when buf is full
RECURSIVE QpRange(_, _, _, _, _)
QpRange(r, local_buf, lo, hi, n) ==
    IF lo > hi \/ r.kind = "Err" \/ Len(r.data) >= n THEN r
    ELSE IF lo = hi THEN QpByte(r.st, local_buf[lo], r.data)
    ELSE LET mid == (lo + hi) \div 2
             left == QpRange(r, local_buf, lo, mid, n)
         IN  IF left.kind = "Err" THEN left
             ELSE QpRange(left, local_buf, mid + 1, hi, n)

\* the for loop of read over the bytes taken from the stream, res_buf the
\* bytes decoded so far
QpLoop(s, local_buf, res_buf, n) ==
    QpRange([st |-> s, kind |-> "Ok", data |-> res_buf], local_buf, 1, Len(local_buf), n)

\* a read that does not look at is_error
QuotedPrintableReader_read_unlatched(s, n) ==
    IF n = 0 THEN [st |-> s, kind |-> "Ok", data |-> << >>]
    ELSE QpLoop([s EXCEPT !.stream = Drop(s.stream, Min(n, Len(s.stream)))],
                Take(s.stream, n), << >>, n)

\* QuotedPrintableReader::read with a buffer of n bytes: one read of the
\* stream for at most n bytes, then the loop over them
QuotedPrintableReader_read(s, n) ==
    IF s.is_error THEN [st |-> s, kind |-> "Err", data |-> << >>, staged |-> << >>]
    ELSE IF n = 0 THEN [st |-> s, kind |-> "Ok", data |-> << >>]
    ELSE QpLoop([s EXCEPT !.stream = Drop(s.stream, Min(n, Len(s.stream)))],
                Take(s.stream, n), << >>, n)

\* the caller's buffer after a call that decoded straight into it, as the
\* assignments to buf[out_buf_written_offset] that the loop no longer has
QpCopyOut_direct(res, buf) ==
    LET written == IF res.kind = "Ok" THEN res.data ELSE res.staged
    IN  written \o Drop(buf, Len(written))

\* the caller's buffer after a call with the result res: res_buf is copied
\* to the start of buf just before Ok is returned, no other statement of
\* read assigns to buf
QpCopyOut(res, buf) ==
    IF res.kind = "Ok" THEN res.data \o Drop(buf, Len(res.data)) ELSE buf

\* the buffer of n bytes a caller passes to read: filled with a byte that no
\* input of the model decodes to
QpFill == 0
QpFresh(n) == [i \in 1..n |-> QpFill]

\* bounds of the Quoted-Printable reader's inputs
MaxQpLen == 4
MaxQpBuf == 3
MaxQpRetry == 2
QpAlphabet == {EQ, CR, LF, CH_A, CH_a, CH_G}

\* the driver: the input, the reader, the bytes collected, the kind of the
\* last result, whether the stream was at its end when a call returned
\* nothing, whether a read has failed and the reads made after the failure,
\* whether a call returned Ok(0) when the stream still had bytes, and of the
\* last call the size of its buffer, the count it returned, the count of
\* bytes in res_buf when it failed and the buffer as the call left it
QpRInit ==
    /\ \E input \in SeqsUpTo(QpAlphabet, MaxQpLen) :
          qpr = [ input |-> input, r |-> QuotedPrintableReader_new(input),
                  out |-> << >>, last |-> "None", eof |-> FALSE,
                  erred |-> FALSE, retries |-> 0, stalled |-> FALSE,
                  call |-> [n |-> 0, len |-> 0, staged |-> 0, buf |-> << >>] ]
    /\ bd = Idle /\ hdr = Idle /\ part = Idle /\ b64r = Idle /\ b64w = Idle /\ qpw = Idle

\* one call of read; the caller stops when the stream is exhausted and a call
\* returned Ok(0), and retries a failed reader at most MaxQpRetry times
QpRRead ==
    /\ ~qpr.eof
    /\ qpr.erred => qpr.retries < MaxQpRetry
    /\ \E n \in 1..MaxQpBuf :
          LET res == QuotedPrintableReader_read(qpr.r, n)
          IN  qpr' = [qpr EXCEPT !.r = res.st,
                                 !.out = IF res.kind = "Ok" THEN qpr.out \o res.data ELSE qpr.out,
                                 !.last = res.kind,
                                 !.eof = (res.kind = "Ok" /\ Len(res.data) = 0
                                          /\ Len(qpr.r.stream) = 0),
                                 !.erred = qpr.erred \/ res.kind = "Err",
                                 !.retries = IF qpr.erred THEN qpr.retries + 1 ELSE 0,
                                 !.stalled = qpr.stalled
                                     \/ (res.kind = "Ok" /\ Len(res.data) = 0
                                         /\ Len(qpr.r.stream) > 0),
                                 !.call = [n |-> n, len |-> Len(res.data),
                                           staged |-> IF res.kind = "Err"
                                                      THEN Len(res.staged) ELSE 0,
                                           buf |-> QpCopyOut(res, QpFresh(n))]]
    /\ UNCHANGED <<bd, hdr, part, b64r, b64w, qpw>>

QpRNext == QpRRead

SpecQpR == QpRInit /\ [][QpRNext]_vars

(***************************************************************************)
(* QuotedPrintableWriter (encoding/quoted_printable.rs)                    *)
(***************************************************************************)
QpLineLimit == 76

\* utils::hex::encode_hex_char: the two uppercase digits, high nibble first
HexChar(v) == IF v < 10 THEN v + 48 ELSE v + CH_A - 10
encode_hex_char(b) == <<HexChar((b \div 16) % 16), HexChar(b % 16)>>

\* QuotedPrintableWriter::new, on a sink as that of Base64Writer_new; a sink
\* with err_at >= 0 returns an error from write once it holds err_at bytes;
\* staged_max is a history variable, the largest value write_buf_sz has had
QuotedPrintableWriter_new(cap) ==
    [ writer            |-> << >>,
      cap               |-> cap,
      write_buf         |-> <<0, 0, 0, 0, 0>>,
      write_buf_sz      |-> 0,
      line_len          |-> 0,
      last_written_char |-> 0,
      max_write         |-> 0,
      err_at            |-> -1,
      staged_max        |-> 0 ]

\* self.writer.write returns Err
SinkFails(w) == w.err_at >= 0 /\ Len(w.writer) >= w.err_at

\* flush_write_buf: write write_buf[..write_buf_sz] until write_buf_sz is 0;
\* the result of the sink's write is unwrapped, an Err of the sink panics
RECURSIVE flush_write_buf(_)
flush_write_buf(w) ==
    IF w.write_buf_sz = 0 THEN [st |-> w, kind |-> "Ok"]
    ELSE IF SinkFails(w) THEN [st |-> w, kind |-> "Panic"]
    ELSE LET len == SinkAccepts(w, w.write_buf_sz)
         IN  IF len = 0 THEN [st |-> w, kind |-> "Err"]
             ELSE flush_write_buf([w EXCEPT !.writer = w.writer \o Take(w.write_buf, len),
                                            !.write_buf_sz = w.write_buf_sz - len])

\* every byte written as it is
QpwUnit_raw(b) == <<b>>

\* the encoded form of a byte: itself, or '=' and its two digits
QpwUnit(b) == IF b < 128 /\ b # EQ THEN <<b>> ELSE <<EQ>> \o encode_hex_char(b)

\* the body of the for loop of write for the byte b, after flush_write_buf
QpwByte(w, b) ==
    LET enc_char == QpwUnit(b)
        enc_char_sz == Len(enc_char)
        line_len == IF b = LF THEN 0 ELSE (w.line_len + enc_char_sz) % 256
        brk == IF (line_len + enc_char_sz) % 256 > QpLineLimit
               THEN (IF w.last_written_char # LF THEN <<EQ>> ELSE << >>) \o <<LF>>
               ELSE << >>
        staged == Take(w.write_buf, w.write_buf_sz) \o brk \o enc_char
    IN  [w EXCEPT !.line_len = IF brk # << >> THEN 0 ELSE line_len,
                  !.write_buf = clone_from_slice(w.write_buf, staged),
                  !.write_buf_sz = Len(staged),
                  !.last_written_char = b,
                  !.staged_max = IF Len(staged) > @ THEN Len(staged) ELSE @]

\* the iterations of the for loop of write for buf[lo..hi], from the result r
\* of the iterations before: flush_write_buf, then the byte
RECURSIVE QpwRange(_, _, _, _)
QpwRange(r, buf, lo, hi) ==
    IF lo > hi \/ r.kind # "Ok" THEN r
    ELSE IF lo = hi
    THEN LET f == flush_write_buf(r.st)
         IN  IF f.kind # "Ok" THEN f
             ELSE [st |-> QpwByte(f.st, buf[lo]), kind |-> "Ok"]
    ELSE LET mid == (lo + hi) \div 2
             left == QpwRange(r, buf, lo, mid)
         IN  IF left.kind # "Ok" THEN left
             ELSE QpwRange(left, buf, mid + 1, hi)

\* the for loop of write over buf and the flush_write_buf that follows it
QpwLoop(w, buf) ==
    LET r == QpwRange([st |-> w, kind |-> "Ok"], buf, 1, Len(buf))
    IN  IF r.kind # "Ok" THEN r ELSE flush_write_buf(r.st)

\* QuotedPrintableWriter::write; an Ok result has taken the whole of buf
QuotedPrintableWriter_write(w, buf) ==
    IF buf = << >> THEN [st |-> w, kind |-> "Ok"] ELSE QpwLoop(w, buf)

\* QuotedPrintableWriter::flush
QuotedPrintableWriter_flush(w) == flush_write_buf(w)

\* bounds of the writer's data: at most MaxQpwPieces pieces, each one byte or
\* a run of QpwRunLen 'a'
MaxQpwPieces == 3
QpwRunLen == 76
QpwPieces == {"run", "a", "eq", "lf", "cr", "ff"}

QpwPiece(p) ==
    CASE p = "run" -> [i \in 1..QpwRunLen |-> CH_a]
      [] p = "a"   -> <<CH_a>>
      [] p = "eq"  -> <<EQ>>
      [] p = "lf"  -> <<LF>>
      [] p = "cr"  -> <<CR>>
      [] p = "ff"  -> <<CH_FF>>

RECURSIVE QpwExpand(_)
QpwExpand(ps) == IF ps = << >> THEN << >> ELSE QpwPiece(Head(ps)) \o QpwExpand(Tail(ps))

\* the driver: the data, the pieces not yet written, the writer, the last
\* call and the kind of its result, and what a reader returned on the bytes
\* of the sink
QpwInit ==
    /\ \E ps \in SeqsUpTo(QpwPieces, MaxQpwPieces) :
          qpw = [ d |-> QpwExpand(ps), rest |-> ps, w |-> QuotedPrintableWriter_new(-1),
                  op |-> "new", last |-> "None", back |-> [kind |-> "None"] ]
    /\ bd = Idle /\ hdr = Idle /\ part = Idle /\ b64r = Idle /\ b64w = Idle /\ qpr = Idle

\* write_all of the next piece, or of all the pieces left
QpwWrite ==
    /\ qpw.rest # << >> /\ qpw.back.kind = "None"
    /\ \E k \in {1, Len(qpw.rest)} :
          LET res == QuotedPrintableWriter_write(qpw.w, QpwExpand(Take(qpw.rest, k)))
          IN  qpw' = [qpw EXCEPT !.w = res.st, !.op = "write", !.last = res.kind,
                                 !.rest = IF res.kind = "Ok" THEN Drop(qpw.rest, k)
                                          ELSE qpw.rest]
    /\ UNCHANGED <<bd, hdr, part, b64r, b64w, qpr>>

QpwFlush ==
    /\ qpw.back.kind = "None"
    /\ LET res == QuotedPrintableWriter_flush(qpw.w)
       IN  qpw' = [qpw EXCEPT !.w = res.st, !.op = "flush", !.last = res.kind]
    /\ UNCHANGED <<bd, hdr, part, b64r, b64w, qpr>>

\* a QuotedPrintableReader over the bytes of the sink is read twice with a
\* buffer that holds the whole text
QpwReadBack ==
    /\ qpw.rest = << >> /\ qpw.back.kind = "None"
    /\ \E extra \in 0..1 :
          LET n == Len(qpw.w.writer) + extra
              r1 == QuotedPrintableReader_read(QuotedPrintableReader_new(qpw.w.writer), n)
              r2 == QuotedPrintableReader_read(r1.st, n)
          IN  qpw' = [qpw EXCEPT !.op = "read",
                                 !.back = [kind |-> r1.kind, data |-> r1.data, n |-> n,
                                           next |-> r2.kind, next_len |-> Len(r2.data)]]
    /\ UNCHANGED <<bd, hdr, part, b64r, b64w, qpr>>

QpwNext == QpwWrite \/ QpwFlush \/ QpwReadBack

SpecQpW == QpwInit /\ [][QpwNext]_vars

(***************************************************************************)
(* Both writers on a sink whose write accepts at most max_write bytes      *)
(***************************************************************************)
\* bounds: the most bytes the sink accepts in one call, and the pieces of
\* the quoted-printable data
MaxShortWrite == 2
MaxShortPieces == 2
ShortCodecs == {"base64", "quoted_printable"}

\* one of the two writers (w) on a sink that accepts at most max_write bytes
\* in a call, and a second writer (ref) given the same calls on a Vec
ShortInit ==
    /\ \E codec \in ShortCodecs, m \in 1..MaxShortWrite :
          \/ /\ codec = "base64"
             /\ \E d \in SeqsUpTo(B64Bytes, MaxB64Data), fof \in BOOLEAN :
                   b64w = [ d |-> d, rest |-> d,
                            w |-> [Base64Writer_new(-1, fof) EXCEPT !.max_write = m],
                            ref |-> Base64Writer_new(-1, fof),
                            op |-> "new", last |-> "None" ]
             /\ qpw = Idle
          \/ /\ codec = "quoted_printable"
             /\ \E ps \in SeqsUpTo(QpwPieces, MaxShortPieces) :
                   qpw = [ d |-> QpwExpand(ps), rest |-> ps,
                           w |-> [QuotedPrintableWriter_new(-1) EXCEPT !.max_write = m],
                           ref |-> QuotedPrintableWriter_new(-1),
                           op |-> "new", last |-> "None" ]
             /\ b64w = Idle
    /\ bd = Idle /\ hdr = Idle /\ part = Idle /\ b64r = Idle /\ qpr = Idle

ShortB64Write ==
    /\ b64w # Idle /\ b64w.rest # << >>
    /\ \E k \in 1..Min(MaxB64Chunk, Len(b64w.rest)) :
          LET res == Base64Writer_write(b64w.w, Take(b64w.rest, k))
              exp == Base64Writer_write(b64w.ref, Take(b64w.rest, k))
          IN  b64w' = [b64w EXCEPT !.w = res.st, !.ref = exp.st, !.op = "write",
                                   !.last = res.kind,
                                   !.rest = IF res.kind = "Ok" THEN Drop(b64w.rest, k)
                                            ELSE b64w.rest]
    /\ UNCHANGED <<bd, hdr, part, b64r, qpr, qpw>>

ShortB64Flush ==
    /\ b64w # Idle
    /\ LET res == Base64Writer_flush(b64w.w)
           exp == Base64Writer_flush(b64w.ref)
       IN  b64w' = [b64w EXCEPT !.w = res.st, !.ref = exp.st, !.op = "flush",
                                !.last = res.kind]
    /\ UNCHANGED <<bd, hdr, part, b64r, qpr, qpw>>

ShortB64Finalize ==
    /\ b64w # Idle
    /\ LET res == Base64Writer_finalize(b64w.w)
           exp == Base64Writer_finalize(b64w.ref)
       IN  b64w' = [b64w EXCEPT !.w = res.st, !.ref = exp.st, !.op = "finalize",
                                !.last = res.kind]
    /\ UNCHANGED <<bd, hdr, part, b64r, qpr, qpw>>

ShortQpWrite ==
    /\ qpw # Idle /\ qpw.rest # << >>
    /\ \E k \in {1, Len(qpw.rest)} :
          LET res == QuotedPrintableWriter_write(qpw.w, QpwExpand(Take(qpw.rest, k)))
              exp == QuotedPrintableWriter_write(qpw.ref, QpwExpand(Take(qpw.rest, k)))
          IN  qpw' = [qpw EXCEPT !.w = res.st, !.ref = exp.st, !.op = "write",
                                 !.last = res.kind,
                                 !.rest = IF res.kind = "Ok" THEN Drop(qpw.rest, k)
                                          ELSE qpw.rest]
    /\ UNCHANGED <<bd, hdr, part, b64r, b64w, qpr>>

ShortQpFlush ==
    /\ qpw # Idle
    /\ LET res == QuotedPrintableWriter_flush(qpw.w)
           exp == QuotedPrintableWriter_flush(qpw.ref)
       IN  qpw' = [qpw EXCEPT !.w = res.st, !.ref = exp.st, !.op = "flush",
                              !.last = res.kind]
    /\ UNCHANGED <<bd, hdr, part, b64r, b64w, qpr>>

ShortNext ==
    ShortB64Write \/ ShortB64Flush \/ ShortB64Finalize \/ ShortQpWrite \/ ShortQpFlush

SpecShort == ShortInit /\ [][ShortNext]_vars

(***************************************************************************)
(* QuotedPrintableWriter on a sink whose write returns an error            *)
(***************************************************************************)
\* bounds: the sink returns an error once it holds at most MaxQpErrAt bytes
MaxQpErrAt == 2
MaxQpErrPieces == 2

QpwErrInit ==
    /\ \E ps \in SeqsUpTo(QpwPieces, MaxQpErrPieces), e \in 0..MaxQpErrAt :
          qpw = [ d |-> QpwExpand(ps), rest |-> ps,
                  w |-> [QuotedPrintableWriter_new(-1) EXCEPT !.err_at = e],
                  op |-> "new", last |-> "None", back |-> [kind |-> "None"] ]
    /\ bd = Idle /\ hdr = Idle /\ part = Idle /\ b64r = Idle /\ b64w = Idle /\ qpr = Idle

\* the calls of a caller that stops at a panic
QpwErrWrite == qpw.last # "Panic" /\ QpwWrite

QpwErrFlush == qpw.last # "Panic" /\ QpwFlush

QpwErrNext == QpwErrWrite \/ QpwErrFlush

SpecQpwErr == QpwErrInit /\ [][QpwErrNext]_vars

(***************************************************************************)
(* The staging buffers of Base64Reader, Base64Writer and                   *)
(* QuotedPrintableWriter, with callers that also pass empty buffers        *)
(***************************************************************************)
\* bounds: the bytes after the head of the reader's input, the caller's
\* buffer, the writers' data, the capacity of a slice sink
MaxStageTail == 3
MaxStageBuf == 3
MaxStageData == 3
MaxStagePieces == 2
MaxStageCap == 4
StageCodecs == {"Base64Reader", "Base64Writer", "QuotedPrintableWriter"}
StageCaps == {-1} \cup 0..MaxStageCap

\* one of the three codecs; n is the length of the buffer of the last call
\* of read or write, len the count a read returned
StageInit ==
    /\ \E codec \in StageCodecs :
          \/ /\ codec = "Base64Reader"
             /\ \E head \in B64Heads, tail \in SeqsUpTo(B64Alphabet, MaxStageTail) :
                   b64r = [ input |-> head \o tail, r |-> Base64Reader_new(head \o tail),
                            last |-> "None", n |-> 0, len |-> 0 ]
             /\ b64w = Idle /\ qpw = Idle
          \/ /\ codec = "Base64Writer"
             /\ \E d \in SeqsUpTo(B64Bytes, MaxStageData), cap \in StageCaps, fof \in BOOLEAN :
                   b64w = [ rest |-> d, w |-> Base64Writer_new(cap, fof),
                            op |-> "new", last |-> "None" ]
             /\ b64r = Idle /\ qpw = Idle
          \/ /\ codec = "QuotedPrintableWriter"
             /\ \E ps \in SeqsUpTo(QpwPieces, MaxStagePieces), cap \in StageCaps :
                   qpw = [ rest |-> ps, w |-> QuotedPrintableWriter_new(cap),
                           op |-> "new", last |-> "None", n |-> 0 ]
             /\ b64r = Idle /\ b64w = Idle
    /\ bd = Idle /\ hdr = Idle /\ part = Idle /\ qpr = Idle

\* a call of read with a buffer of 0..MaxStageBuf bytes; the caller stops at
\* an error and at Ok(0) for a buffer that is not empty
StageRead ==
    /\ b64r # Idle /\ b64r.last # "Err"
    /\ ~(b64r.last = "Ok" /\ b64r.len = 0 /\ b64r.n > 0)
    /\ \E n \in 0..MaxStageBuf :
          LET res == Base64Reader_read(b64r.r, n)
          IN  b64r' = [b64r EXCEPT !.r = res.st, !.last = res.kind, !.n = n,
                                   !.len = Len(res.data)]
    /\ UNCHANGED <<bd, hdr, part, b64w, qpr, qpw>>

StageB64Write ==
    /\ b64w # Idle /\ b64w.rest # << >> /\ b64w.last # "Hang"
    /\ \E k \in 1..Len(b64w.rest) :
          LET res == Base64Writer_write(b64w.w, Take(b64w.rest, k))
          IN  b64w' = [b64w EXCEPT !.w = res.st, !.op = "write", !.last = res.kind,
                                   !.rest = IF res.kind = "Ok" THEN Drop(b64w.rest, k)
                                            ELSE b64w.rest]
    /\ UNCHANGED <<bd, hdr, part, b64r, qpr, qpw>>

StageB64Flush ==
    /\ b64w # Idle /\ b64w.last # "Hang"
    /\ LET res == Base64Writer_flush(b64w.w)
       IN  b64w' = [b64w EXCEPT !.w = res.st, !.op = "flush", !.last = res.kind]
    /\ UNCHANGED <<bd, hdr, part, b64r, qpr, qpw>>

StageB64Finalize ==
    /\ b64w # Idle /\ b64w.last # "Hang"
    /\ LET res == Base64Writer_finalize(b64w.w)
       IN  b64w' = [b64w EXCEPT !.w = res.st, !.op = "finalize", !.last = res.kind]
    /\ UNCHANGED <<bd, hdr, part, b64r, qpr, qpw>>

\* a call of write with the next k pieces of the data, k = 0 an empty buffer
StageQpWrite ==
    /\ qpw # Idle
    /\ \E k \in {0, 1, Len(qpw.rest)} :
          LET buf == QpwExpand(Take(qpw.rest, k))
              res == QuotedPrintableWriter_write(qpw.w, buf)
          IN  qpw' = [qpw EXCEPT !.w = res.st, !.op = "write", !.last = res.kind,
                                 !.n = Len(buf),
                                 !.rest = IF res.kind = "Ok" THEN Drop(qpw.rest, k)
                                          ELSE qpw.rest]
    /\ UNCHANGED <<bd, hdr, part, b64r, b64w, qpr>>

StageQpFlush ==
    /\ qpw # Idle
    /\ LET res == QuotedPrintableWriter_flush(qpw.w)
       IN  qpw' = [qpw EXCEPT !.w = res.st, !.op = "flush", !.last = res.kind]
    /\ UNCHANGED <<bd, hdr, part, b64r, b64w, qpr>>

StageNext ==
    \/ StageRead
    \/ StageB64Write \/ StageB64Flush \/ StageB64Finalize
    \/ StageQpWrite \/ StageQpFlush

SpecStage == StageInit /\ [][StageNext]_vars

\* the header bytes of an input that contains the delimiter
HeaderBytes(input) == Take(input, FirstOcc(input, HeaderDelimiter) - 1)

\* C1: for every input that contains CR LF CR LF and either in_mail flag, no
\* read fails and, once read has returned Ok(0), the collected bytes are
\* exactly the input bytes before the first CR LF CR LF.
C1_HeaderBytesBeforeFirstDelimiter ==
    Contains(hdr.input, HeaderDelimiter) =>
        /\ hdr.last # "Err"
        /\ hdr.eof => hdr.out = HeaderBytes(hdr.input)

\* the number of bytes the reader has taken from the source
HdrConsumed == Len(hdr.input) - Len(hdr.r.reader)

\* C19: when the reader is finished because the detector completed, it has
\* taken from the source the header bytes, those before the first
\* CR LF CR LF of the input, and the 4 bytes of that delimiter, and no more.
C19_ConsumedToDelimiter ==
    (hdr.r.is_finished /\ hdr.r.bd = Len(HeaderDelimiter)) =>
        HdrConsumed = FirstOcc(hdr.input, HeaderDelimiter) + Len(HeaderDelimiter) - 1

\* C20: with in_mail = true, Ok(0) is returned only when the delimiter has
\* completed; the call in which the source reports its end returns the bytes
\* it has produced or, if none, an error, and every call after it returns
\* the error.
C20_NoCleanEof ==
    (hdr.r.is_in_mail /\ hdr.eof) => (hdr.r.is_finished /\ hdr.r.bd = Len(HeaderDelimiter))

C20_Step ==
    /\ (~hdr.r.is_unexpected_eof /\ hdr'.r.is_unexpected_eof) =>
          \/ (hdr'.last = "Ok" /\ Len(hdr'.out) > Len(hdr.out))
          \/ hdr'.last = "Err"
    /\ hdr.r.is_unexpected_eof => (hdr'.last = "Err" /\ hdr'.r = hdr.r)

C20_UnexpectedEof == [] C20_NoCleanEof /\ [][C20_Step]_vars

\* a reader in a mail returned the byte before the end of the source, then
\* the error, and the error again
C20_Witness ==
    /\ hdr.r.is_in_mail /\ hdr.r.is_unexpected_eof
    /\ hdr.input = <<CH_a, CR>> /\ hdr.out = <<CH_a>>
    /\ hdr.last = "Err" /\ hdr.extra = 1

\* C21: a reader built with in_mail = false, on an input without CR LF CR LF,
\* never returns an error; when it reports the end it is finished and the
\* caller has the whole input, the bytes of a partial match at the end of the
\* input included.
C21_WholeInput ==
    (~hdr.r.is_in_mail /\ ~Contains(hdr.input, HeaderDelimiter)) =>
        /\ hdr.last # "Err"
        /\ hdr.eof => (hdr.r.is_finished /\ hdr.out = hdr.input)

\* the replay bytes a reader still owes to its caller
HdrPending(s) == Take(s.rd_buf, s.rd_buf_sz)

\* C22: every call of read with a buffer of n >= 1 bytes returns, and gives at
\* most n bytes; the replay bytes that were pending before the call come first
\* and in order, and when the replay bytes of a broken match do not fit, the
\* call returns with the buffer full and the rest stays pending.
C22_Step ==
    \A n \in 1..MaxHdrBuf :
        LET res == MailHeaderReader_read(hdr.r, n)
            k == Min(n, hdr.r.rd_buf_sz)
        IN  (hdr'.r = res.st /\ hdr'.last = res.kind) =>
                /\ res.kind # "Hang"
                /\ Len(res.data) <= n
                /\ Take(res.data, k) = Take(HdrPending(hdr.r), k)
                /\ res.st.rd_buf_sz > 0 => Len(res.data) = n

C22_BoundedBuffer == [][C22_Step]_vars

\* C23: count_header_bytes returns for every mail; for a mail that contains
\* CR LF CR LF the result is Ok(k) with k the offset of the first one, which
\* is at most the length of the mail, and for a mail without it the result is
\* Err(()).
C23_CountIsOffset ==
    hdr.result.kind # "None" =>
        IF Contains(hdr.mail, HeaderDelimiter)
        THEN /\ hdr.result.kind = "Ok"
             /\ hdr.result.value = FirstOcc(hdr.mail, HeaderDelimiter) - 1
             /\ hdr.result.value <= Len(hdr.mail)
        ELSE hdr.result.kind = "Err"

\* the capacity of rd_buf
RdBufCapacity == 5

C28_InRange == 0 <= bd.d.pos /\ bd.d.pos <= Len(bd.d.boundary)

C28_Step ==
    /\ bd'.op = "pass_byte" =>
          /\ (bd'.res = "MatchDone") <=> (bd'.d.pos = Len(bd'.d.boundary))
          /\ is_done(bd.d) =>
                (bd'.res = "MatchDone" /\ bd'.d.pos = bd.d.pos /\ is_done(bd'.d))
    /\ bd'.op = "reset" => bd'.d.pos = 0
    /\ bd'.d.boundary = bd.d.boundary

C28_PositionInvariant == [] C28_InRange /\ [][C28_Step]_vars

\* the delimiter CR LF was matched and a further byte was passed to the
\* detector that was done
C28_Witness ==
    /\ bd.d.boundary = <<CR, LF>> /\ bd.fed = <<CR, LF, CR>>
    /\ bd.results = <<"MatchBegin", "MatchDone", "MatchDone">>
    /\ bd.d.pos = 2 /\ is_done(bd.d)

\* C29: pass_byte at position p < len with byte b. When b is delimiter[p] the
\* position becomes p + 1 and the result is MatchBegin, or MatchDone when
\* p + 1 = len. When b differs and p = 0 the result is NoMatch and the position
\* stays 0. When b differs and p > 0 the result is MatchBroke with the p bytes
\* matched so far, without the breaking byte, and the position becomes 0, also
\* when b is the first byte of the delimiter. The first k < len bytes of the
\* delimiter, passed from position 0, give k times MatchBegin.
C29_Step ==
    (bd'.op = "pass_byte" /\ bd.d.pos < Len(bd.d.boundary)) =>
        LET p == bd.d.pos
            b == bd'.byte
        IN  IF b = bd.d.boundary[p + 1]
            THEN /\ bd'.d.pos = p + 1
                 /\ bd'.res = IF p + 1 = Len(bd.d.boundary) THEN "MatchDone" ELSE "MatchBegin"
            ELSE IF p = 0
            THEN bd'.res = "NoMatch" /\ bd'.d.pos = 0
            ELSE /\ bd'.res = "MatchBroke"
                 /\ bd'.data = Take(bd.d.boundary, p)
                 /\ bd'.d.pos = 0

C29_Prefix ==
    (Len(bd.fed) < Len(bd.d.boundary) /\ bd.fed = Take(bd.d.boundary, Len(bd.fed))) =>
        bd.results = [i \in 1..Len(bd.fed) |-> "MatchBegin"]

C29_PassByte == [] C29_Prefix /\ [][C29_Step]_vars

\* CR LF CR of the delimiter CR LF CR LF was matched and broken by a CR: the
\* three bytes are returned and the position is 0
C29_Witness ==
    /\ bd.d.boundary = <<CR, LF, CR, LF>> /\ bd.fed = <<CR, LF, CR, CR>>
    /\ bd.res = "MatchBroke" /\ bd.data = <<CR, LF, CR>> /\ bd.d.pos = 0

\* the count of input bytes through the first occurrence of the delimiter
ScanFirstEnd ==
    LET starts == { p \in 1..(Len(bd.input) + 1) : OccursAt(bd.input, bd.d.boundary, p) }
        first == CHOOSE p \in starts : \A q \in starts : p <= q
    IN  first + Len(bd.d.boundary) - 1

\* C36: for every delimiter and every input that contains it, the consumer
\* that follows the protocol receives MatchDone at the last byte of the first
\* occurrence of the delimiter, delimiters with a repeated prefix included
C36_FirstOccurrence ==
    Contains(bd.input, bd.d.boundary) =>
        /\ bd.done_at > 0 => bd.done_at = ScanFirstEnd
        /\ bd.i >= ScanFirstEnd => bd.done_at = ScanFirstEnd

\* C36 for the header delimiter CR LF CR LF alone
C36_HeaderDelimiter ==
    bd.d.boundary = HeaderDelimiter => C36_FirstOccurrence


(***************************************************************************)
(* Claims about PartReader                                                 *)
(***************************************************************************)
\* a caller that reads with buffers of n bytes until Ok(0), an error or a panic
RECURSIVE PartReadAll(_, _, _)
PartReadAll(s, acc, n) ==
    LET res == PartReader_read(s, n)
    IN  IF res.kind # "Ok" THEN [st |-> res.st, kind |-> res.kind, out |-> acc]
        ELSE IF Len(res.data) = 0 THEN [st |-> res.st, kind |-> "Eof", out |-> acc]
        ELSE PartReadAll(res.st, acc \o res.data, n)

\* the result of reading the whole input with one buffer larger than the input
PartReference ==
    PartReadAll(PartReader_new(part.input, part.boundary, part.use_single_nl),
                << >>, Len(part.input) + 1)

EndsWith(s, t) == Len(t) <= Len(s) /\ SubSeq(s, Len(s) - Len(t) + 1, Len(s)) = t

\* input = B + common prefix + suffix, with the common prefix not in B
IsBodyThen(suffix) ==
    LET tail == part.r.common_boundary \o suffix
    IN  /\ EndsWith(part.input, tail)
        /\ ~Contains(Take(part.input, Len(part.input) - Len(tail)), part.r.common_boundary)

BodyBefore(suffix) ==
    Take(part.input, Len(part.input) - Len(part.r.common_boundary) - Len(suffix))

\* no read has failed, and the bytes collected so far are a prefix of body
PartYields(body, final_state) ==
    /\ part.last \in {"None", "Ok"}
    /\ Take(body, Len(part.out)) = part.out
    /\ part.r.state \in {"LookingForBoundary", final_state}
    /\ part.eof => part.out = body /\ part.r.state = final_state

\* C2: in CRLF mode, for a body B without CR LF '--' M, reading B + CR LF
\* '--' M '--' CR LF yields exactly B, then Ok(0), in state FoundFinalBoundary,
\* and reading B + CR LF '--' M CR LF yields exactly B, then Ok(0), in state
\* FoundMiddleBoundary; no read fails on the way.
C2_BodyThenBoundary ==
    ~part.use_single_nl =>
        /\ IsBodyThen(part.r.final_boundary) =>
              PartYields(BodyBefore(part.r.final_boundary), "FoundFinalBoundary")
        /\ IsBodyThen(part.r.middle_boundary) =>
              PartYields(BodyBefore(part.r.middle_boundary), "FoundMiddleBoundary")

\* a non-empty body that ends in a partial common prefix, followed by the final
\* boundary of a non-empty marker, has been read to Ok(0)
C2_Witness ==
    /\ ~part.use_single_nl /\ part.eof
    /\ part.boundary = <<CH_b>>
    /\ IsBodyThen(part.r.final_boundary)
    /\ part.r.state = "FoundFinalBoundary"
    /\ part.out = <<CR>>

\* C24: in LF-only mode the delimiters are LF '--' M, LF and '--' LF; for a
\* body B without LF '--' M, reading B + LF '--' M LF yields exactly B and ends
\* in FoundMiddleBoundary, and reading B + LF '--' M '--' LF yields exactly B
\* and ends in FoundFinalBoundary; every read returns normally.
C24_LfMode ==
    part.use_single_nl =>
        /\ part.r.common_boundary = <<LF, DASH, DASH>> \o part.boundary
        /\ part.r.middle_boundary = <<LF>>
        /\ part.r.final_boundary = <<DASH, DASH, LF>>
        /\ IsBodyThen(part.r.middle_boundary) =>
              PartYields(BodyBefore(part.r.middle_boundary), "FoundMiddleBoundary")
        /\ IsBodyThen(part.r.final_boundary) =>
              PartYields(BodyBefore(part.r.final_boundary), "FoundFinalBoundary")

\* the reader has nothing to replay, its source is at the end and the common
\* prefix is not completely matched
PartStrictEof(s) ==
    /\ s.state = "LookingForBoundary" /\ ~PartPending(s)
    /\ Len(s.reader) = 0 /\ s.bd < Len(s.common_boundary)

\* C25: a read that finds the source at its end while the reader is
\* LookingForBoundary and the common prefix is not completely matched returns
\* an error and leaves the state LookingForBoundary; Ok(0) is never returned
\* for such a part, and a part whose input has no common prefix at all never
\* leaves LookingForBoundary.
C25_Step ==
    /\ PartStrictEof(part.r) =>
          (part'.last = "Err" /\ part'.r.state = "LookingForBoundary" /\ part'.out = part.out)
    /\ \A n \in 1..MaxPartBuf :
          LET res == PartReader_read(part.r, n)
          IN  (part'.r = res.st /\ part'.last = res.kind
                 /\ PartStrictEof(res.st) /\ Len(res.data) < n) => res.kind = "Err"

C25_NoOkZero ==
    /\ part.eof => (part.r.state # "LookingForBoundary" /\ part.r.bd = Len(part.r.common_boundary))
    /\ part.last = "Err" => part.r.state = "LookingForBoundary"
    /\ ~Contains(part.input, part.r.common_boundary) =>
          (~part.eof /\ part.r.state = "LookingForBoundary" /\ part.last # "Panic")

C25_StrictEof == [] C25_NoOkZero /\ [][C25_Step]_vars

\* an input that ends inside the common prefix: the caller got the body byte
\* in a first call that filled its buffer, and the error in the next call
C25_Witness ==
    /\ ~part.use_single_nl /\ part.input = <<DASH, CR, LF>>
    /\ part.out = <<DASH>> /\ part.last = "Err" /\ part.r.bd = 2
    /\ part.r.state = "LookingForBoundary"

\* C26: in CRLF mode, when the source ends right after the common prefix and
\* '--', no read fails, the body before the boundary is delivered and the
\* reader ends in FoundFinalBoundary.
C26_LenientFinal ==
    (~part.use_single_nl /\ IsBodyThen(<<DASH, DASH>>)) =>
        PartYields(BodyBefore(<<DASH, DASH>>), "FoundFinalBoundary")

\* the body CR and the final boundary of the marker 'b' without its newline
\* have been read to Ok(0)
C26_Witness ==
    /\ ~part.use_single_nl /\ part.boundary = <<CH_b>>
    /\ part.input = <<CR, CR, LF, DASH, DASH, CH_b, DASH, DASH>>
    /\ part.eof /\ part.out = <<CR>> /\ part.r.state = "FoundFinalBoundary"

\* C27: in CRLF mode, when the source ends right after the common prefix, no
\* read fails, the body before the boundary is delivered and the reader ends
\* in FoundMiddleBoundary.
C27_LenientMiddle ==
    (~part.use_single_nl /\ IsBodyThen(<< >>)) =>
        PartYields(BodyBefore(<< >>), "FoundMiddleBoundary")

\* C31: in both newline styles the assertions of read hold: the recovery
\* buffer is empty whenever a byte is about to be examined, both suffix
\* detectors are at 0 whenever the common detector is not complete, and the
\* two suffix detectors are never both off position 0.
C31_Assertions ==
    /\ part.r.asserts_held /\ part.r.one_suffix
    /\ part.r.bd < Len(part.r.common_boundary) =>
          (part.r.final_bd = 0 /\ part.r.middle_bd = 0)
    /\ part.r.middle_bd = 0 \/ part.r.final_bd = 0

\* the middle suffix was broken after its CR: the reader fell back to the
\* common stage and a call returned in the middle of the replay
C31_Witness ==
    /\ ~part.use_single_nl /\ part.input = <<CR, LF, DASH, DASH, CR, DASH>>
    /\ part.last = "Ok" /\ part.out = <<CR>>
    /\ part.r.recovery_buffer = <<LF, DASH, DASH, CR>> /\ part.r.previous_char = <<DASH>>
    /\ part.r.bd = 0 /\ part.r.middle_bd = 0 /\ part.r.final_bd = 0

PartFinished(s) == s.state \in {"FoundMiddleBoundary", "FoundFinalBoundary"}

\* C32: on a finished reader every read, whatever the buffer, returns Ok(0)
\* and leaves the reader, its source included, as it was; the state leaves
\* LookingForBoundary only when a suffix detector completes or when the
\* source ends with the common prefix complete.
C32_Finished ==
    PartFinished(part.r) =>
        \A n \in 1..MaxPartBuf : PartReader_read(part.r, n) = PartOk(part.r, << >>)

C32_Step ==
    /\ PartFinished(part.r) =>
          (part'.r = part.r /\ part'.last = "Ok" /\ part'.eof /\ part'.out = part.out)
    /\ (~PartFinished(part.r) /\ PartFinished(part'.r)) =>
          \/ part'.r.state = "FoundMiddleBoundary"
                /\ part'.r.middle_bd = Len(part'.r.middle_boundary)
          \/ part'.r.state = "FoundFinalBoundary"
                /\ part'.r.final_bd = Len(part'.r.final_boundary)
          \/ Len(part'.r.reader) = 0 /\ part'.r.bd = Len(part'.r.common_boundary)

C32_Absorbing == [] C32_Finished /\ [][C32_Step]_vars

\* a call returned the body and found the middle boundary; the next call, on
\* the finished reader, returned Ok(0)
C32_Witness ==
    /\ ~part.use_single_nl /\ part.boundary = << >>
    /\ part.input = <<DASH, CR, LF, DASH, DASH, CR, LF>>
    /\ part.r.state = "FoundMiddleBoundary" /\ part.eof /\ part.out = <<DASH>>
    /\ part.finished_calls = 1

\* the partial suffixes that are not a suffix without its newline
PartialSuffixes == { <<DASH>>, <<CR>>, <<DASH, DASH, CR>> }

\* C33: in CRLF mode, when the source ends after the common prefix and a
\* single '-', a lone CR or '--' CR, the end of the part is never reported:
\* the state stays LookingForBoundary and the read that meets the end of the
\* source fails.
C33_OnlyWholeSuffix ==
    \A sfx \in PartialSuffixes :
        (~part.use_single_nl /\ IsBodyThen(sfx)) =>
            /\ ~part.eof /\ part.r.state = "LookingForBoundary"
            /\ part.last \in {"None", "Ok", "Err"}

\* the complete boundaries of the reader: the common prefix and one suffix
FullBoundaries == { part.r.common_boundary \o part.r.middle_boundary,
                    part.r.common_boundary \o part.r.final_boundary }

HasFullBoundary == \E d \in FullBoundaries : Contains(part.input, d)

\* the input bytes before the first complete boundary
BeforeFirstBoundary ==
    LET P == { FirstOcc(part.input, d) : d \in {e \in FullBoundaries : Contains(part.input, e)} }
        p == CHOOSE q \in P : \A q2 \in P : q <= q2
    IN  Take(part.input, p - 1)

\* the number of input bytes up to the end of the first complete boundary
FirstBoundaryEnd ==
    LET D == {e \in FullBoundaries : Contains(part.input, e)}
        d == CHOOSE e \in D : \A e2 \in D : FirstOcc(part.input, e) <= FirstOcc(part.input, e2)
    IN  FirstOcc(part.input, d) + Len(d) - 1

\* C34: a reader that finished on a complete boundary has taken from its
\* source the bytes up to the last byte of that boundary and no more, whatever
\* the buffers; the reader created on the same source after a middle boundary
\* never fails, and yields the body of the next part: the bytes of the rest of
\* the source before its first complete boundary.
C34_SourcePosition ==
    /\ (PartFinished(part.r) /\ HasFullBoundary
          /\ (part.r.middle_bd = Len(part.r.middle_boundary)
                \/ part.r.final_bd = Len(part.r.final_boundary))) =>
            Len(part.input) - Len(part.r.reader) = FirstBoundaryEnd
    /\ (part.parts > 0 /\ part.after = "FoundMiddleBoundary" /\ HasFullBoundary) =>
            /\ part.last \in {"None", "Ok"}
            /\ Take(BeforeFirstBoundary, Len(part.out)) = part.out
            /\ part.eof => part.out = BeforeFirstBoundary

\* the second reader, created after the middle boundary of an empty first
\* part with bytes left in the source, has yielded the body of the second part
C34_Witness ==
    /\ ~part.use_single_nl /\ part.parts = 1 /\ part.boundary = <<CH_b>>
    /\ part.after = "FoundMiddleBoundary"
    /\ part.input = <<CR, DASH, CR, LF, DASH, DASH, CH_b, DASH, DASH, CR, LF>>
    /\ part.eof /\ part.out = <<CR, DASH>> /\ part.r.state = "FoundFinalBoundary"
    /\ part.r.reader = << >>

\* C35: for every input, marker, newline style and buffer size, read returns
\* Ok or Err: it reaches no panic arm, and its end-of-source branch neither
\* indexes outside the middle suffix nor underflows
C35_NeverPanics == part.last # "Panic"

\* C35 restricted to the CR LF newline style
C35_CrLfNeverPanics == ~part.use_single_nl => part.last # "Panic"

\* C3 as stated: in CRLF mode, for every input, when the reader reports the end
\* of the stream the bytes it has emitted are exactly the input bytes before
\* the first complete boundary (common prefix and middle or final suffix).
C3_EveryInput ==
    (~part.use_single_nl /\ part.eof) =>
        HasFullBoundary /\ part.out = BeforeFirstBoundary

\* C3 amended: in CRLF mode, for every input that contains a complete
\* boundary, no read fails, the bytes emitted are always a prefix of the input
\* bytes before the first complete boundary and, when the reader reports the
\* end of the stream, exactly those bytes: a broken near-match is replayed in
\* order and its breaking byte is examined again.
C3_BeforeFirstBoundary ==
    (~part.use_single_nl /\ HasFullBoundary) =>
        /\ part.last \in {"None", "Ok"}
        /\ Take(BeforeFirstBoundary, Len(part.out)) = part.out
        /\ part.eof => part.out = BeforeFirstBoundary

\* a near-match broken in the final suffix, whose breaking byte starts the
\* real boundary, has been replayed and the real boundary found
C3_Witness ==
    /\ ~part.use_single_nl /\ part.eof
    /\ part.boundary = <<CH_b>>
    /\ part.input = <<CR, LF, DASH, DASH, CH_b, DASH>>
                      \o <<CR, LF, DASH, DASH, CH_b, CR, LF>>
    /\ part.out = <<CR, LF, DASH, DASH, CH_b, DASH>>

\* C4: whatever buffer sizes the caller uses, a run that reaches Ok(0) has
\* collected the bytes and ends in the state of the run with one buffer larger
\* than the input, which reaches Ok(0) too; a run that fails, fails as that
\* run does.
C4_BufferSizeInvariance ==
    /\ part.eof =>
          /\ PartReference.kind = "Eof"
          /\ PartReference.out = part.out
          /\ PartReference.st.state = part.r.state
    /\ part.last \in {"Err", "Panic"} => PartReference.kind = part.last

\* a replay was cut by the end of a caller buffer: the recovery buffer and the
\* breaking byte were pending between two calls, and the run reached Ok(0)
C4_Witness ==
    /\ part.eof /\ part.cut
    /\ part.out = <<CR, LF, DASH>>
    /\ part.r.state = "FoundMiddleBoundary"

(***************************************************************************)
(* Claims about Base64Reader                                               *)
(***************************************************************************)
\* C5: for an input whose length is a multiple of 4, read agrees with the
\* one-shot decoder: if that accepts the input, no read fails, the bytes
\* collected are a prefix of its result and, at Ok(0), equal to it; if it
\* rejects the input, Ok(0) is not reached without a failed read.
C5_AgreesWithReference ==
    Len(b64r.input) % 4 = 0 =>
        LET ref == base64_decode(b64r.input)
        IN  IF ref.ok
            THEN /\ ~b64r.erred
                 /\ Take(ref.data, Len(b64r.out)) = b64r.out
                 /\ b64r.eof => b64r.out = ref.data
            ELSE b64r.eof => b64r.erred

\* an accepted two-group input with padding was read to Ok(0), a group having
\* been decoded into rd_buf and drained over several calls
C5_Witness ==
    /\ b64r.eof /\ ~b64r.erred /\ b64r.split
    /\ b64r.input = <<CH_Q, CH_R, CH_Q, CH_R, CH_R, CH_Q, CH_Q, EQ>>
    /\ b64r.out = base64_decode(b64r.input).data
    /\ Len(b64r.out) = 5

\* the bytes the reader has taken from the source
B64Consumed(st) == Take(b64r.input, Len(b64r.input) - Len(st.reader))

NumPads(s) == Cardinality({i \in 1..Len(s) : s[i] = EQ})

\* a byte other than '=' at index i of s follows a '='
NonPadAfterPad(s, i) == s[i] # EQ /\ \E j \in 1..(i - 1) : s[j] = EQ

\* C6: a call of read fails when (a) it consumes a third (or later) '=',
\* (b) it consumes a byte other than '=' after a '=' was consumed, or (c) the
\* source reports its end while 1 to 3 characters of a group are pending.
C6_Step ==
    LET before == Len(B64Consumed(b64r.r))
        after == B64Consumed(b64r'.r)
        taken == (before + 1)..Len(after)
    IN  /\ (NumPads(after) >= 3 /\ \E i \in taken : after[i] = EQ) => b64r'.last = "Err"
        /\ (\E i \in taken : NonPadAfterPad(after, i)) => b64r'.last = "Err"
        /\ (b64r'.saw_eof /\ b64r'.r.in_buf_sz \in 1..3) => b64r'.last = "Err"

C6_Validation == [][C6_Step]_vars

\* a first read has failed on the end of the source inside a group
C6_Witness ==
    /\ b64r.last = "Err" /\ b64r.saw_eof /\ b64r.retries = 0
    /\ b64r.r.in_buf_sz = 2 /\ Len(b64r.out) = 3

\* C7: once a read has failed, every later read fails.
C7_LatchedError == b64r.erred => b64r.last = "Err"

(***************************************************************************)
(* Claims about QuotedPrintableReader                                      *)
(***************************************************************************)
\* a hexadecimal digit in either case
IsHexDigit(c) == (c >= 48 /\ c <= 57) \/ (c >= 65 /\ c <= 70) \/ (c >= 97 /\ c <= 102)

\* the index of the first byte of s that makes an escape malformed (a byte
\* after '=' that is not LF, CR or a hex digit, a second digit that is not a
\* hex digit, a byte other than LF after '=' CR), 0 if there is none; st is
\* the position in the escape: 0 literal, 1 after '=', 2 after a digit, 3
\* after '=' CR
RECURSIVE FirstMalformed(_, _, _)
FirstMalformed(s, i, st) ==
    IF i > Len(s) THEN 0
    ELSE LET b == s[i]
         IN  CASE st = 0 -> FirstMalformed(s, i + 1, IF b = EQ THEN 1 ELSE 0)
               [] st = 1 -> IF b = LF THEN FirstMalformed(s, i + 1, 0)
                            ELSE IF b = CR THEN FirstMalformed(s, i + 1, 3)
                            ELSE IF IsHexDigit(b) THEN FirstMalformed(s, i + 1, 2)
                            ELSE i
               [] st = 2 -> IF IsHexDigit(b) THEN FirstMalformed(s, i + 1, 0) ELSE i
               [] st = 3 -> IF b = LF THEN FirstMalformed(s, i + 1, 0) ELSE i

QpConsumed(st) == Len(qpr.input) - Len(st.stream)

\* C8: the read that takes the first malformed escape byte from the source
\* returns an error, and so does every later read; a read of a failed reader
\* takes nothing from the source.
C8_Malformed ==
    LET bad == FirstMalformed(qpr.input, 1, 0)
    IN  (bad > 0 /\ QpConsumed(qpr.r) >= bad) => (qpr.last = "Err" /\ qpr.r.is_error)

C8_Latched == qpr.r.is_error => (qpr'.last = "Err" /\ qpr'.r = qpr.r)

C8_RejectsAndLatches == [] C8_Malformed /\ [][C8_Latched]_vars

\* a reader that failed on a byte other than LF after '=' CR was read again
C8_Witness ==
    /\ qpr.input = <<CH_A, EQ, CR, CH_A>>
    /\ qpr.out = <<CH_A>>
    /\ qpr.last = "Err" /\ qpr.retries = 2

\* the value of a hexadecimal digit in either case
AnyHexValue(c) == IF c <= 57 THEN c - 48 ELSE IF c <= 70 THEN c - 55 ELSE c - 87

\* the decoded form of s: '=' LF and '=' CR LF give nothing, '=' and two
\* hexadecimal digits give the byte of that value, any other byte is itself;
\* the decoding stops at an escape that is cut or malformed
RECURSIVE QpReference(_)
QpReference(s) ==
    IF s = << >> THEN << >>
    ELSE IF s[1] # EQ THEN <<s[1]>> \o QpReference(Tail(s))
    ELSE IF Len(s) >= 2 /\ s[2] = LF THEN QpReference(Drop(s, 2))
    ELSE IF Len(s) >= 3 /\ s[2] = CR /\ s[3] = LF THEN QpReference(Drop(s, 3))
    ELSE IF Len(s) >= 3 /\ IsHexDigit(s[2]) /\ IsHexDigit(s[3])
    THEN <<16 * AnyHexValue(s[2]) + AnyHexValue(s[3])>> \o QpReference(Drop(s, 3))
    ELSE << >>

\* C16: when every escape of the input is '=' LF, '=' CR LF or '=' and two
\* hexadecimal digits of either case, no read fails and, at the end of the
\* stream, the bytes collected are the decoded form of the input.
C16_EitherCase ==
    FirstMalformed(qpr.input, 1, 0) = 0 =>
        /\ ~qpr.erred
        /\ qpr.eof => qpr.out = QpReference(qpr.input)

\* every '=' of s starts a soft line break
OnlySoftBreaks(s) ==
    \A i \in 1..Len(s) : s[i] = EQ =>
        \/ (i + 1 <= Len(s) /\ s[i + 1] = LF)
        \/ (i + 2 <= Len(s) /\ s[i + 1] = CR /\ s[i + 2] = LF)

\* C17: a soft line break, '=' LF or '=' CR LF, gives no output byte and no
\* error and the bytes around it are adjacent in the output; a CR, LF or
\* CR LF without '=' before it is passed through. For every input whose
\* reads did not fail the bytes collected at the end of the stream are the
\* decoded form of the input.
C17_SoftBreaks ==
    /\ OnlySoftBreaks(qpr.input) =>
          /\ ~qpr.erred
          /\ Take(QpReference(qpr.input), Len(qpr.out)) = qpr.out
    /\ (qpr.eof /\ ~qpr.erred) => qpr.out = QpReference(qpr.input)

\* 'A' '=' LF 'A' was read to the end of the stream
C17_Witness ==
    /\ qpr.input = <<CH_A, EQ, LF, CH_A>>
    /\ qpr.eof /\ qpr.out = <<CH_A, CH_A>>

\* the input is read without error by one call with a buffer larger than it,
\* and does not end inside an escape
QpAccepted(s) ==
    LET res == QuotedPrintableReader_read(QuotedPrintableReader_new(s), Len(s) + 1)
    IN  res.kind = "Ok" /\ res.st.buf_offset = 0

\* C18: for an input that one call with a large buffer accepts, a read with a
\* buffer of 1 byte or more returns Ok(0) only when the stream is at its end.
C18_ZeroOnlyAtEnd == QpAccepted(qpr.input) => ~qpr.stalled

(***************************************************************************)
(* Claims about Base64Writer                                               *)
(***************************************************************************)
\* all the data was written and the writer finalized
B64WComplete == b64w.w.is_done /\ b64w.rest = << >>

\* C9: whatever the chunks of the write calls, once the data is written and
\* the writer finalized (no partial group having been flushed before), the
\* sink holds the padded Base64 encoding of the data: 4 * ceil(len / 3)
\* characters, '=' only at the end of the last group, no line break.
C9_EncodesLikeReference ==
    (B64WComplete /\ ~b64w.partial_flush) =>
        /\ b64w.w.writer = base64_encode(b64w.d)
        /\ Len(b64w.w.writer) = 4 * ((Len(b64w.d) + 2) \div 3)
        /\ \A i \in 1..Len(b64w.w.writer) :
              /\ b64w.w.writer[i] \notin {CR, LF}
              /\ b64w.w.writer[i] = EQ => i > Len(b64w.w.writer) - 2

\* four bytes written in several chunks, the last group padded by finalize
C9_Witness ==
    /\ B64WComplete /\ ~b64w.partial_flush /\ ~b64w.w.finalize_on_flush
    /\ b64w.d = <<CH_a, CH_FF, CH_a, CH_a>>
    /\ b64w.w.writer = <<89, 102, 57, 104, 89, 81, EQ, EQ>>

\* C10: on a writer that does not finalize on flush, a flush of a partial
\* group changes nothing, so that once the data is written and the writer
\* finalized the sink holds the encoding of the data whether or not flush was
\* called between the writes.
C10_FlushKeepsPartialGroup ==
    (B64WComplete /\ ~b64w.w.finalize_on_flush) => b64w.w.writer = base64_encode(b64w.d)

\* C11: finalization is absorbing. Once is_done is set it stays set, a later
\* write or finalize fails and a later flush succeeds, none of them sending a
\* byte to the sink; a successful finalize, or flush of a writer that
\* finalizes on flush, sets is_done; and no call, failed or not, changes
\* finalize_on_flush.
C11_Step ==
    /\ b64w'.w.finalize_on_flush = b64w.w.finalize_on_flush
    /\ b64w.w.is_done =>
          /\ b64w'.w.is_done
          /\ b64w'.w.writer = b64w.w.writer
          /\ b64w'.op \in {"write", "finalize"} => b64w'.last = "Err"
          /\ b64w'.op = "flush" => b64w'.last = "Ok"
    /\ (b64w'.op = "finalize" /\ b64w'.last = "Ok") => b64w'.w.is_done
    /\ (b64w'.op = "flush" /\ b64w.w.finalize_on_flush /\ b64w'.last = "Ok") => b64w'.w.is_done

C11_FinalizationAbsorbing == [][C11_Step]_vars

\* a write refused after a flush finalized the writer
C11_Witness ==
    /\ b64w.w.is_done /\ b64w.w.finalize_on_flush
    /\ b64w.op = "write" /\ b64w.last = "Err"
    /\ b64w.w.writer = <<89, 81, EQ, EQ>>

(***************************************************************************)
(* Claims about Base64Writer followed by Base64Reader                      *)
(***************************************************************************)
\* C12: when the data was written in any chunks and the writer finalized, the
\* reads of what the sink received never fail, whatever the buffer sizes; the
\* bytes collected are a prefix of the data and, at Ok(0), the data.
C12_RoundTrip ==
    b64r # Idle =>
        /\ ~b64r.erred
        /\ Take(b64w.d, Len(b64r.out)) = b64r.out
        /\ b64r.eof => b64r.out = b64w.d

\* four bytes, the last in a padded group, read back over several calls with a
\* decoded group drained from rd_buf
C12_Witness ==
    /\ b64r # Idle /\ b64r.eof /\ b64r.split
    /\ b64w.d = <<CH_a, CH_FF, CH_a, CH_FF>>
    /\ b64r.out = b64w.d

(***************************************************************************)
(* Claims about QuotedPrintableWriter                                      *)
(***************************************************************************)
\* C13: the text the writer produced for the data, read back with a buffer
\* that holds the whole text, gives the data without error, and the next read
\* returns Ok(0): no soft break survives and no escape is rejected.
C13_RoundTrip ==
    qpw.back.kind # "None" =>
        /\ qpw.back.kind = "Ok" /\ qpw.back.data = qpw.d
        /\ qpw.back.next = "Ok" /\ qpw.back.next_len = 0

\* two runs that force two soft breaks and an escaped '=' were written and
\* read back
C13_Witness ==
    /\ qpw.back.kind = "Ok"
    /\ qpw.rest = << >> /\ qpw.d = QpwExpand(<<"run", "run", "eq">>)
    /\ Len(qpw.w.writer) = Len(qpw.d) + 2 + 2 + 2
    /\ qpw.back.data = qpw.d

\* the length of the longest line of s: the characters between two line feeds
LineStarts(s) == {1} \cup {i + 1 : i \in {j \in 1..Len(s) : s[j] = LF}}

LineEnd(s, i) ==
    LET E == {j \in i..Len(s) : s[j] = LF}
    IN  IF E = {} THEN Len(s) + 1 ELSE CHOOSE j \in E : \A k \in E : j <= k

LongestLine(s) ==
    LET L == {LineEnd(s, i) - i : i \in LineStarts(s)}
    IN  CHOOSE m \in L : \A k \in L : k <= m

\* C14: every line of the output, the '=' of a soft break counted, is at most
\* 76 characters long.
C14_LineLimit == LongestLine(qpw.w.writer) <= QpLineLimit

\* the unit of a byte: the byte itself when it is printable ASCII other than
\* '=', else '=' and its two uppercase digits
PrintableUnit(b) ==
    IF b >= 32 /\ b <= 126 /\ b # EQ THEN <<b>> ELSE <<EQ>> \o encode_hex_char(b)

\* the concatenation of s[lo..hi] for a sequence s of sequences
RECURSIVE Flatten(_, _, _)
Flatten(s, lo, hi) ==
    IF lo > hi THEN << >>
    ELSE IF lo = hi THEN s[lo]
    ELSE LET mid == (lo + hi) \div 2
         IN  Flatten(s, lo, mid) \o Flatten(s, mid + 1, hi)

PrintableUnits(s) == Flatten([i \in 1..Len(s) |-> PrintableUnit(s[i])], 1, Len(s))

\* s without its soft breaks, '=' followed by a line feed
WithoutSoftBreaks(s) ==
    LET soft(i) == \/ (s[i] = EQ /\ i < Len(s) /\ s[i + 1] = LF)
                   \/ (s[i] = LF /\ i > 1 /\ s[i - 1] = EQ)
    IN  Flatten([i \in 1..Len(s) |-> IF soft(i) THEN << >> ELSE <<s[i]>>], 1, Len(s))

\* C15: apart from the soft breaks, the output is the units of the bytes
\* written so far: a literal for printable ASCII other than '=', an escape
\* for every other byte (control characters, bare CR and bare LF included);
\* data with a CR LF pair is left out.
C15_UnitChoice ==
    LET written == Take(qpw.d, Len(qpw.d) - Len(QpwExpand(qpw.rest)))
    IN  ~Contains(qpw.d, <<CR, LF>>) =>
            WithoutSoftBreaks(qpw.w.writer) = PrintableUnits(written)

(***************************************************************************)
(* Claims about the writers' sinks                                         *)
(***************************************************************************)
\* C37 for Base64Writer: the sink holds a prefix of what the Vec of the
\* second writer holds, and all of it once nothing is staged
C37_Base64 ==
    b64w # Idle =>
        /\ Take(b64w.ref.writer, Len(b64w.w.writer)) = b64w.w.writer
        /\ (b64w.last = "Ok" /\ b64w.w.w_buf_sz = 0) => b64w.w.writer = b64w.ref.writer

\* C37 for QuotedPrintableWriter
C37_QuotedPrintable ==
    qpw # Idle =>
        /\ Take(qpw.ref.writer, Len(qpw.w.writer)) = qpw.w.writer
        /\ qpw.last = "Ok" => qpw.w.writer = qpw.ref.writer

\* C37: with a sink that accepts fewer bytes than offered, but at least one,
\* both writers deliver every staged byte to the sink exactly once and in
\* order: the sink's content equals that of a sink which accepts everything
C37_ShortWrites == C37_Base64 /\ C37_QuotedPrintable

\* C38: when the sink's write returns an error during write or flush of
\* QuotedPrintableWriter, the call returns an Err value: it neither panics
\* nor returns Ok. A call that ends with bytes staged on a sink that fails
\* is a call in which the sink's write returned the error
C38_ErrorReturned ==
    (qpw.op \in {"write", "flush"} /\ SinkFails(qpw.w) /\ qpw.w.write_buf_sz > 0) =>
        qpw.last = "Err"

(***************************************************************************)
(* Claims about the caller's buffer of QuotedPrintableReader               *)
(***************************************************************************)
\* C39: a call of read that returns an error leaves the caller's buffer as
\* it was, whatever it had decoded before the error; a successful call
\* writes the bytes it returned at the start of the buffer and nothing else
C39_BufferUntouched ==
    /\ qpr.last = "Err" => qpr.call.buf = QpFresh(qpr.call.n)
    /\ qpr.last = "Ok" =>
          /\ qpr.call.len <= qpr.call.n
          /\ Take(qpr.call.buf, qpr.call.len) = Drop(qpr.out, Len(qpr.out) - qpr.call.len)
          /\ Drop(qpr.call.buf, qpr.call.len) = Drop(QpFresh(qpr.call.n), qpr.call.len)

\* the byte 'a' was decoded and then '=' 'G' failed, in one call with a
\* buffer of 3 bytes
C39_Witness ==
    /\ qpr.input = <<CH_a, EQ, CH_G>> /\ qpr.last = "Err" /\ qpr.retries = 0
    /\ qpr.call.n = 3 /\ qpr.call.staged = 1 /\ qpr.out = << >>
    /\ qpr.call.buf = <<QpFill, QpFill, QpFill>>

(***************************************************************************)
(* Claims about the staging buffers of the codecs                          *)
(***************************************************************************)
\* the sizes of the staging buffers stay within their block
StageBounds ==
    /\ b64r # Idle => (b64r.r.in_buf_sz <= 3 /\ b64r.r.rd_buf_sz <= 3)
    /\ b64w # Idle => (b64w.w.in_buf_sz <= 3 /\ b64w.w.w_buf_sz <= 4)
    /\ qpw # Idle => (qpw.w.write_buf_sz <= 5 /\ qpw.w.staged_max <= 5)

\* finalize and flush of Base64Writer and flush of QuotedPrintableWriter
\* return Ok with nothing staged
StageFlushed ==
    /\ (b64w # Idle /\ b64w.op \in {"flush", "finalize"} /\ b64w.last = "Ok") =>
          (b64w.w.in_buf_sz = 0 /\ b64w.w.w_buf_sz = 0)
    /\ (qpw # Idle /\ qpw.op = "flush" /\ qpw.last = "Ok") => qpw.w.write_buf_sz = 0

\* C40 as stated: the staging buffers stay within their block size, read of
\* Base64Reader returns Ok(0) only with rd_buf empty and no partial group
\* pending, and write of QuotedPrintableWriter returns Ok with nothing staged
C40_AsStated ==
    /\ StageBounds /\ StageFlushed
    /\ (b64r # Idle /\ b64r.last = "Ok" /\ b64r.len = 0) =>
          (b64r.r.rd_buf_sz = 0 /\ b64r.r.in_buf_sz = 0)
    /\ (qpw # Idle /\ qpw.op = "write" /\ qpw.last = "Ok") => qpw.w.write_buf_sz = 0

\* C40 for callers' buffers that are not empty: the same, for a read into a
\* buffer of at least one byte and a write of at least one byte
C40_Staging ==
    /\ StageBounds /\ StageFlushed
    /\ (b64r # Idle /\ b64r.last = "Ok" /\ b64r.len = 0 /\ b64r.n > 0) =>
          (b64r.r.rd_buf_sz = 0 /\ b64r.r.in_buf_sz = 0)
    /\ (qpw # Idle /\ qpw.op = "write" /\ qpw.last = "Ok" /\ qpw.n > 0) =>
          qpw.w.write_buf_sz = 0

\* the reader gave the three bytes of the group 'QRQR' one at a time, two of
\* them out of rd_buf, and then returned Ok(0) into a buffer of one byte
C40_Witness ==
    /\ b64r # Idle /\ b64r.input = <<CH_Q, CH_R, CH_Q, CH_R>>
    /\ b64r.last = "Ok" /\ b64r.len = 0 /\ b64r.n = 1
    /\ b64r.r.reader = << >> /\ b64r.r.rd_buf_sz = 0 /\ b64r.r.in_buf_sz = 0

====
